---- MODULE Spec2Model ----
(***************************************************************************)
(* Model of the hubverse-dashboards configuration core:                    *)
(*   scripts/yaml_config_processor.py  DashboardConfig, load_config        *)
(* A configuration document is read, parsed section by section and         *)
(* validated; errors and warnings accumulate in two lists and the          *)
(* constructor raises at the end when the error list is not empty.         *)
(***************************************************************************)
EXTENDS Integers, Sequences, FiniteSets, TLC

(***************************************************************************)
(* Bounds of the explored documents.                                       *)
(***************************************************************************)
MaxStatic == 2
MaxDynamic == 2
MaxDate == 2
MaxTargets == 1
MaxModels == 1
MaxDeviations == 2
MaxPaletteModels == 12
MaxIntervals == 1
MaxRows == 2
MaxDay == 4
MaxLongRows == 3
MaxAnswers == 2

(* A date string no parser accepts; the dates 1..MaxDate are ISO strings. *)
UnparsableDate == 0

StaticIds == {"s1", "s2"}
DynamicIds == {"s1", "d1"}
ModelNames == {"m1", "m2"}
TargetNames == {"t1"}

SeqUpTo(S, n) == UNION {[1..k -> S] : k \in 0..n}

RECURSIVE SeqToSet(_)
SeqToSet(s) == IF s = <<>> THEN {} ELSE {Head(s)} \cup SeqToSet(Tail(s))

(***************************************************************************)
(* The document.  Every top-level key of config.yaml is one field; a       *)
(* field's "absent" value means the key does not occur in the document.    *)
(***************************************************************************)
NoRange == [kind |-> "absent", n |-> 0]
IntRange(n) == [kind |-> "int", n |-> n]
StrRange == [kind |-> "str", n |-> 0]

Layouts == {"none", "empty_list", "mapping", "singletons", "with_scalar", "multi_key"}

DateCases ==
    {[start |-> s, end |-> e, display |-> TRUE] : s \in 0..MaxDate, e \in {1, MaxDate}}
    \cup {[start |-> 1, end |-> 1, display |-> FALSE]}

MkStatic(ids, dc) ==
    [i \in DOMAIN ids |->
        [id |-> ids[i], start |-> dc.start, end |-> dc.end,
         display |-> IF dc.display THEN ids[i] ELSE "absent"]]

(* time_anchor / range_calculation of a dynamic period: anchor is the     *)
(* anchor_on value, "absent" when the period has no time_anchor.          *)
AnchorCases ==
    {ac \in [anchor : {"absent", "latest", "earliest", "s1", "zz"},
             range : {NoRange, IntRange(-1), IntRange(1), StrRange}] :
        /\ ac.range = StrRange => ac.anchor = "latest"
        /\ ac.range = NoRange => ac.anchor \in {"absent", "latest"}}

MkDynamic(ids, ac) ==
    [i \in DOMAIN ids |->
        [id |-> ids[i], display |-> ids[i], anchor |-> ac.anchor, range |-> ac.range]]

TargetCases ==
    {[props |-> "ok", periods |-> <<"s1">>], [props |-> "ok", periods |-> <<"zz">>],
     [props |-> "ok", periods |-> <<>>], [props |-> "no_key", periods |-> <<"s1">>],
     [props |-> "none", periods |-> <<"s1">>]}

MkTargets(names, tc) ==
    [i \in DOMAIN names |->
        [name |-> names[i], props |-> tc.props, periods |-> tc.periods]]

MkModels(names, c) == [i \in DOMAIN names |-> [name |-> names[i], color_hex |-> c]]

TimeUnits ==
    {[kind |-> "absent", n |-> 0], [kind |-> "str", n |-> 0]}
    \cup {[kind |-> "int", n |-> n] : n \in {-1, 0, 7, 15}}

LocationCases ==
    {lc \in [is_single : {"absent", "true"},
             single_mapping : {"absent", "empty", "set"},
             location_data : {"absent", "csv", "mapping", "mapping_misnamed"}] :
        /\ lc.single_mapping = "empty" => lc.is_single = "true"
        /\ lc.single_mapping # "absent" => lc.location_data = "absent"
        /\ lc.is_single = "true" => lc.location_data \in {"absent", "mapping"}}

LinkCases == {[online |-> o, local |-> l] : o \in BOOLEAN, l \in BOOLEAN}

(* A document every rule accepts; the explored documents depart from it. *)
Base ==
    [layout |-> "singletons",
     links |-> [online |-> FALSE, local |-> TRUE],
     static_ids |-> <<"s1">>,
     static_dates |-> [start |-> 1, end |-> 1, display |-> TRUE],
     dynamic_ids |-> <<>>,
     anchor |-> [anchor |-> "latest", range |-> IntRange(-1)],
     location |-> [is_single |-> "absent", single_mapping |-> "absent",
                   location_data |-> "mapping"],
     target_names |-> <<"t1">>,
     target_case |-> [props |-> "ok", periods |-> <<"s1">>],
     time_unit |-> [kind |-> "int", n |-> 7],
     horizons |-> "list",
     observation_format |-> "float",
     model_names |-> <<"m1">>,
     model_color |-> "#123456",
     intervals |-> "ok",
     baseline |-> "m1"]

Groups == DOMAIN Base

Pick(S, g, full) == IF g \in S THEN full \ {Base[g]} ELSE {Base[g]}

(* The choices that depart from Base in exactly the groups of S. *)
ChoicesFor(S) ==
    [layout : Pick(S, "layout", Layouts),
     links : Pick(S, "links", LinkCases),
     static_ids : Pick(S, "static_ids", SeqUpTo(StaticIds, MaxStatic)),
     static_dates : Pick(S, "static_dates", DateCases),
     dynamic_ids : Pick(S, "dynamic_ids", SeqUpTo(DynamicIds, MaxDynamic)),
     anchor : Pick(S, "anchor", AnchorCases),
     location : Pick(S, "location", LocationCases),
     target_names : Pick(S, "target_names", SeqUpTo(TargetNames, MaxTargets)),
     target_case : Pick(S, "target_case", TargetCases),
     time_unit : Pick(S, "time_unit", TimeUnits),
     horizons : Pick(S, "horizons", {"absent", "empty", "list"}),
     observation_format : Pick(S, "observation_format", {"absent", "float"}),
     model_names : Pick(S, "model_names", SeqUpTo(ModelNames, MaxModels)),
     model_color : Pick(S, "model_color", {"absent", "#123456"}),
     intervals : Pick(S, "intervals",
                      {"absent", "ok", "no_ids", "bad_level", "none_data"}),
     baseline : Pick(S, "baseline", {"absent", "m1", "zz"})]

MkDocument(c) ==
    [layout |-> c.layout, links |-> c.links,
     static |-> MkStatic(c.static_ids, c.static_dates),
     dynamic |-> MkDynamic(c.dynamic_ids, c.anchor),
     location |-> c.location,
     targets |-> MkTargets(c.target_names, c.target_case),
     time_unit |-> c.time_unit, horizons |-> c.horizons,
     observation_format |-> c.observation_format,
     models |-> MkModels(c.model_names, c.model_color),
     intervals |-> c.intervals, baseline |-> c.baseline]

DeviationSets == {T \in SUBSET Groups : Cardinality(T) <= MaxDeviations}

VARIABLES doc, pc, raw_config, validation_errors, validation_warnings, config, raised

(* What the consumers of a config work on and produce: the result of       *)
(* get_all_quantiles, and DataProcessor's two loaded tables, its location  *)
(* list, its period-keyed output, its metadata and its logged warnings.    *)
VARIABLES quantiles, target_data_df, model_output_df, locations, processed_data,
          metadata, logged

(* The files DataProcessor finds under its two data directories. *)
VARIABLES target_data_path, model_output_path

(* The workflow script's process: its --skip-confirmation flag, the lines  *)
(* on its standard input and how many of them input() has read, the lines  *)
(* it printed, and its exit status.                                        *)
VARIABLES skip_confirmation, stdin, consumed, printed, exit_status

wvars == <<skip_confirmation, stdin, consumed, printed, exit_status>>

NotExited == -1

(* The workflow script is not part of the run. *)
NoWorkflow ==
    /\ skip_confirmation = FALSE
    /\ stdin = <<>>
    /\ consumed = 0
    /\ printed = <<>>
    /\ exit_status = NotExited

cvars == <<doc, pc, raw_config, validation_errors, validation_warnings, config, raised>>

dvars == <<quantiles, target_data_df, model_output_df, locations, processed_data,
           metadata, logged, target_data_path, model_output_path, wvars>>

vars == <<cvars, dvars>>

NotComputed == <<>>

NoFrame == [columns |-> {}, rows |-> <<>>]

(* A directory with no CSV file in it. *)
NoCsv == [exists |-> FALSE, columns |-> {}, rows |-> <<>>]

(* No consumer has run. *)
NothingProcessed ==
    /\ quantiles = NotComputed
    /\ target_data_df = NoFrame
    /\ model_output_df = NoFrame
    /\ locations = NotComputed
    /\ processed_data = NotComputed
    /\ metadata = NotComputed
    /\ logged = <<>>
    /\ target_data_path = NoCsv
    /\ model_output_path = <<>>
    /\ NoWorkflow


(***************************************************************************)
(* yaml.safe_load's result.  A list root is a sequence of items; an item   *)
(* is a mapping with a set of keys, or something that is no mapping.       *)
(***************************************************************************)
KeyOrder ==
    <<"links_to_hubverse_compatible_data", "forecast_periods",
      "special_forecast_periods", "is_single_location_forecast",
      "single_location_mapping", "location_data", "targets", "time_unit",
      "horizons", "target_data_observation_format", "available_models",
      "prediction_intervals", "baseline_model_for_relative_WIS">>

PresentKeys(d) ==
    {k \in SeqToSet(KeyOrder) :
        \/ k = "links_to_hubverse_compatible_data" /\ d.links.online
        \/ k = "forecast_periods" /\ d.static # <<>>
        \/ k = "special_forecast_periods" /\ d.dynamic # <<>>
        \/ k = "is_single_location_forecast" /\ d.location.is_single # "absent"
        \/ k = "single_location_mapping" /\ d.location.single_mapping # "absent"
        \/ k = "location_data" /\ d.location.location_data # "absent"
        \/ k = "targets" /\ d.targets # <<>>
        \/ k = "time_unit" /\ d.time_unit.kind # "absent"
        \/ k = "horizons" /\ d.horizons # "absent"
        \/ k = "target_data_observation_format" /\ d.observation_format # "absent"
        \/ k = "available_models" /\ d.models # <<>>
        \/ k = "prediction_intervals" /\ d.intervals # "absent"
        \/ k = "baseline_model_for_relative_WIS" /\ d.baseline # "absent"}

ScalarItem == [isdict |-> FALSE, keys |-> {}]

SingletonItems(d) ==
    LET present == SelectSeq(KeyOrder, LAMBDA k : k \in PresentKeys(d))
    IN  [i \in DOMAIN present |-> [isdict |-> TRUE, keys |-> {present[i]}]]

(* The list yaml.safe_load returns for a list-rooted document. *)
YamlItems(d) ==
    CASE d.layout = "singletons" -> SingletonItems(d)
      [] d.layout = "with_scalar" -> <<ScalarItem>> \o SingletonItems(d)
      [] d.layout = "multi_key" -> <<[isdict |-> TRUE, keys |-> PresentKeys(d)]>>
      [] OTHER -> <<>>

(* _load_yaml: "ok", or the ValueError it raises. *)
LoadYamlMappingAccepted(d) ==
    CASE d.layout \in {"none", "empty_list"} -> "empty"
      [] OTHER -> "ok"

LoadYaml(d) ==
    CASE d.layout \in {"none", "empty_list"} -> "empty"
      [] d.layout = "mapping" -> "must_be_list"
      [] OTHER -> "ok"

(* _get_value / the `isinstance(item, dict) and key in item` scan. *)
HasKey(raw, key) == \E i \in DOMAIN raw : raw[i].isdict /\ key \in raw[i].keys

Err(field, rule, subject) == [field |-> field, rule |-> rule, subject |-> subject]

Warn(field, rule, subject) == [field |-> field, rule |-> rule, subject |-> subject]

PlaceholderDate == 0

NoAnchor == [set |-> FALSE, anchor_on |-> "absent"]

(***************************************************************************)
(* _parse_forecast_periods.  ForecastPeriod.__post_init__ parses the two   *)
(* date strings; a string neither parser accepts raises ValueError, which  *)
(* the `except KeyError` around the constructor does not catch.            *)
(***************************************************************************)
RECURSIVE ParseStaticFrom(_, _, _)
ParseStaticFrom(raws, periods, errors) ==
    IF raws = <<>> THEN [periods |-> periods, errors |-> errors, raised |-> "none"]
    ELSE LET r == Head(raws) IN
         IF r.display = "absent"
         THEN ParseStaticFrom(Tail(raws), periods,
                  Append(errors, Err("forecast_periods", "missing_field", r.id)))
         ELSE IF r.start = UnparsableDate \/ r.end = UnparsableDate
         THEN [periods |-> periods, errors |-> errors, raised |-> "ValueError"]
         ELSE ParseStaticFrom(Tail(raws),
                  Append(periods,
                      [period_id |-> r.id, display_string |-> r.display,
                       start_date |-> r.start, end_date |-> r.end,
                       is_dynamic |-> FALSE, time_anchor |-> NoAnchor,
                       range_calculation |-> NoRange]),
                  errors)

(* Lines 536-541: time_anchor is the mapping merged from the items under   *)
(* the period's time_anchor key; reading a key it lacks with .get gives    *)
(* None ("None" for a mode, NoRange for a number).                         *)
TimeAnchorOf(r) ==
    IF r.anchor = "absent" THEN NoAnchor
    ELSE [set |-> TRUE, anchor_on |-> r.anchor,
          anchor_mode |-> IF "anchor_mode" \in DOMAIN r THEN r.anchor_mode ELSE "None",
          range_calculation |->
              IF "anchor_range" \in DOMAIN r THEN r.anchor_range ELSE NoRange]

(* _parse_dynamic_periods. *)
RECURSIVE ParseDynamicFrom(_, _, _)
ParseDynamicFrom(raws, periods, errors) ==
    IF raws = <<>> THEN [periods |-> periods, errors |-> errors, raised |-> "none"]
    ELSE LET r == Head(raws) IN
         IF r.display = "absent"
         THEN ParseDynamicFrom(Tail(raws), periods,
                  Append(errors, Err("special_forecast_periods", "missing_field", r.id)))
         ELSE ParseDynamicFrom(Tail(raws),
                  Append(periods,
                      [period_id |-> r.id, display_string |-> r.display,
                       start_date |-> PlaceholderDate, end_date |-> PlaceholderDate,
                       is_dynamic |-> TRUE,
                       time_anchor |-> TimeAnchorOf(r),
                       range_calculation |-> r.range]),
                  errors)

(***************************************************************************)
(* _validate_forecast_periods: one pass over static + dynamic periods.     *)
(* Comparing a string range_calculation with 0 raises TypeError.           *)
(***************************************************************************)
DuplicateIdStaticOnly(period, seen_ids) ==
    ~period.is_dynamic /\ period.period_id \in seen_ids

DuplicateId(period, seen_ids) == period.period_id \in seen_ids

AnchorCheck(period, anchor_on, negative) ==
    IF period.is_dynamic /\ period.time_anchor.set
       /\ period.time_anchor.anchor_on = anchor_on
       /\ period.range_calculation.kind # "absent"
    THEN IF period.range_calculation.kind = "str" THEN "TypeError"
         ELSE IF negative /\ period.range_calculation.n < 0 THEN "error"
         ELSE IF ~negative /\ period.range_calculation.n > 0 THEN "error"
         ELSE "ok"
    ELSE "ok"

RECURSIVE ValidatePeriodsFrom(_, _, _, _, _)
ValidatePeriodsFrom(periods, seen_ids, seen_display, errors, warnings) ==
    IF periods = <<>>
    THEN [errors |-> errors, warnings |-> warnings, raised |-> "none"]
    ELSE LET p == Head(periods)
             e1 == IF DuplicateId(p, seen_ids)
                   THEN Append(errors, Err("forecast_periods", "duplicate_id", p.period_id))
                   ELSE errors
             w1 == IF p.display_string \in seen_display
                   THEN Append(warnings,
                            Warn("forecast_periods", "duplicate_display", p.period_id))
                   ELSE warnings
             e2 == IF ~p.is_dynamic /\ p.start_date > p.end_date
                   THEN Append(e1, Err("forecast_periods", "start_after_end", p.period_id))
                   ELSE e1
             earliest == AnchorCheck(p, "earliest", TRUE)
             e3 == IF earliest = "error"
                   THEN Append(e2, Err("special_forecast_periods", "earliest_negative",
                                       p.period_id))
                   ELSE e2
             latest == AnchorCheck(p, "latest", FALSE)
             e4 == IF latest = "error"
                   THEN Append(e3, Err("special_forecast_periods", "latest_positive",
                                       p.period_id))
                   ELSE e3
         IN  IF earliest = "TypeError"
             THEN [errors |-> e2, warnings |-> w1, raised |-> "TypeError"]
             ELSE IF latest = "TypeError"
             THEN [errors |-> e3, warnings |-> w1, raised |-> "TypeError"]
             ELSE ValidatePeriodsFrom(Tail(periods), seen_ids \cup {p.period_id},
                      seen_display \cup {p.display_string}, e4, w1)


(***************************************************************************)
(* Location section: is_single_location, _parse_single_location_mapping,   *)
(* _parse_location_data, _validate_location_data.                          *)
(***************************************************************************)
IsSingleLocation(raw, d) ==
    HasKey(raw, "is_single_location_forecast") /\ d.location.is_single = "true"

ParseSingleLocationMapping(raw, d, is_single) ==
    IF ~is_single THEN "none"
    ELSE IF HasKey(raw, "single_location_mapping") /\ d.location.single_mapping = "set"
    THEN "set"
    ELSE "none"

ParseLocationData(raw, d) ==
    LET v == IF HasKey(raw, "location_data") THEN d.location.location_data ELSE "absent"
    IN  [csv_path |-> v = "csv",
         manual_mapping |-> CASE v = "mapping" -> "ok"
                              [] v = "mapping_misnamed" -> "misnamed"
                              [] OTHER -> "absent"]

ValidateLocationData(is_single, location_data) ==
    IF is_single THEN [errors |-> <<>>, warnings |-> <<>>]
    ELSE IF ~location_data.csv_path /\ location_data.manual_mapping = "absent"
    THEN [errors |-> <<Err("location_data", "no_location_source", "")>>,
          warnings |-> <<>>]
    ELSE [errors |-> <<>>,
          warnings |-> IF location_data.manual_mapping = "misnamed"
                       THEN <<Warn("location_data", "name_mismatch", "")>>
                       ELSE <<>>]

(***************************************************************************)
(* _parse_targets.  `for prop in target_data` raises TypeError when the    *)
(* target has no property list.                                            *)
(***************************************************************************)
AllPeriodIds(cfg) ==
    [i \in 1..Len(cfg.forecast_periods) |-> cfg.forecast_periods[i].period_id]
    \o [i \in 1..Len(cfg.dynamic_periods) |-> cfg.dynamic_periods[i].period_id]

(* validate(), lines 879-887: the (target, period id) references that name *)
(* no defined period.  Neither the constructor nor load_config calls it.   *)
UndefinedPeriodReferences(cfg) ==
    UNION {{<<t, k>> : k \in {n \in DOMAIN cfg.targets[t].forecast_periods :
                          cfg.targets[t].forecast_periods[n]
                              \notin SeqToSet(AllPeriodIds(cfg))}}
           : t \in DOMAIN cfg.targets}

RECURSIVE ParseTargetsFrom(_, _, _, _, _)
ParseTargetsFrom(raws, all_ids, targets, errors, warnings) ==
    IF raws = <<>>
    THEN [targets |-> targets, errors |-> errors, warnings |-> warnings,
          raised |-> "none"]
    ELSE LET r == Head(raws)
             defaulted == r.periods = <<>>
             w1 == IF defaulted
                   THEN Append(warnings, Warn("targets", "default_periods", r.name))
                   ELSE warnings
         IN  IF r.props = "none"
             THEN [targets |-> targets, errors |-> errors, warnings |-> warnings,
                   raised |-> "TypeError"]
             ELSE IF r.props = "no_key"
             THEN ParseTargetsFrom(Tail(raws), all_ids, targets,
                      Append(errors, Err("targets", "missing_field", r.name)), w1)
             ELSE ParseTargetsFrom(Tail(raws), all_ids,
                      Append(targets,
                          [target_column_in_target_data |-> r.name,
                           corresponding_key_in_model_output |-> r.name,
                           forecast_periods |-> IF defaulted THEN all_ids ELSE r.periods]),
                      errors, w1)

(***************************************************************************)
(* time_unit: the required check and _validate_time_unit.                  *)
(***************************************************************************)
TimeUnitCheck(raw, d) ==
    LET v == IF HasKey(raw, "time_unit") THEN d.time_unit
             ELSE [kind |-> "absent", n |-> 0]
        none == [errors |-> <<>>, warnings |-> <<>>, raised |-> "none", value |-> v]
    IN  IF v.kind = "absent" \/ (v.kind = "int" /\ v.n = 0)
        THEN [none EXCEPT !.errors = <<Err("time_unit", "required", "")>>]
        ELSE IF v.kind = "str" THEN [none EXCEPT !.raised = "TypeError"]
        ELSE [none EXCEPT
                 !.errors = IF v.n < 1 THEN <<Err("time_unit", "below_one", "")>>
                            ELSE <<>>,
                 !.warnings = IF v.n > 14 THEN <<Warn("time_unit", "large", "")>>
                              ELSE <<>>]

(***************************************************************************)
(* _parse_models and _validate_and_assign_model_colors.                    *)
(***************************************************************************)
DEFAULT_COLOR_PALETTE ==
    <<"#4CAF50", "#2196F3", "#FF9800", "#9C27B0", "#F44336",
      "#00BCD4", "#FFEB3B", "#795548", "#607D8B", "#E91E63">>

ParseModels(raw, d) ==
    LET ms == IF HasKey(raw, "available_models") THEN d.models ELSE <<>>
    IN  [i \in DOMAIN ms |-> [model_name |-> ms[i].name, color_hex |-> ms[i].color_hex]]

RECURSIVE AssignColorsCountingEveryModel(_, _, _)
AssignColorsCountingEveryModel(models, color_idx, done) ==
    IF models = <<>> THEN done
    ELSE LET m == Head(models) IN
         AssignColorsCountingEveryModel(Tail(models), color_idx + 1,
             Append(done,
                 IF m.color_hex = "absent"
                 THEN [m EXCEPT !.color_hex =
                          DEFAULT_COLOR_PALETTE[
                              (color_idx % Len(DEFAULT_COLOR_PALETTE)) + 1]]
                 ELSE m))

RECURSIVE AssignColorsFrom(_, _, _)
AssignColorsFrom(models, color_idx, done) ==
    IF models = <<>> THEN done
    ELSE LET m == Head(models) IN
         IF m.color_hex = "absent"
         THEN AssignColorsFrom(Tail(models), color_idx + 1,
                  Append(done,
                      [m EXCEPT !.color_hex =
                          DEFAULT_COLOR_PALETTE[
                              (color_idx % Len(DEFAULT_COLOR_PALETTE)) + 1]]))
         ELSE AssignColorsFrom(Tail(models), color_idx, Append(done, m))

ValidateAndAssignModelColors(models) ==
    LET missing == {i \in DOMAIN models : models[i].color_hex = "absent"}
    IN  [models |-> AssignColorsFrom(models, 0, <<>>),
         warnings |-> IF missing # {}
                      THEN <<Warn("available_models", "missing_color_hex", "")>>
                      ELSE <<>>]

(***************************************************************************)
(* _parse_prediction_intervals: KeyError and ValueError become errors; a   *)
(* level without a property list raises TypeError.                         *)
(***************************************************************************)
ParsePredictionIntervals(raw, d) ==
    LET v == IF HasKey(raw, "prediction_intervals") THEN d.intervals ELSE "absent"
        none == [intervals |-> <<>>, errors |-> <<>>, raised |-> "none"]
    IN  CASE v = "ok" ->
               [none EXCEPT !.intervals =
                   <<[level |-> 50, output_type_ids |-> <<"0.25", "0.75">>]>>]
          [] v \in {"no_ids", "bad_level"} ->
               [none EXCEPT !.errors = <<Err("prediction_intervals", "invalid", v)>>]
          [] v = "none_data" -> [none EXCEPT !.raised = "TypeError"]
          [] OTHER -> none

(***************************************************************************)
(* _validate_baseline_model: both findings are warnings.                   *)
(***************************************************************************)
ValidateBaselineModelUnknownAccepted(baseline, models) ==
    IF baseline = "absent"
    THEN <<Warn("baseline_model_for_relative_WIS", "not_specified", "")>>
    ELSE <<>>

ValidateBaselineModel(baseline, models) ==
    IF baseline = "absent"
    THEN <<Warn("baseline_model_for_relative_WIS", "not_specified", "")>>
    ELSE IF \A i \in DOMAIN models : models[i].model_name # baseline
    THEN <<Warn("baseline_model_for_relative_WIS", "not_in_available_models", baseline)>>
    ELSE <<>>


(***************************************************************************)
(* The aggregate check that ends _parse_and_validate.                      *)
(***************************************************************************)
ValidationFailedIgnoringFirst(errors) == Len(errors) > 1

ValidationFailed(errors) == errors # <<>>

(***************************************************************************)
(* State.  pc is the section of _parse_and_validate about to run; raised   *)
(* is the exception that left the constructor, "none" while none has.      *)
(***************************************************************************)
EmptyConfig ==
    [target_data_link |-> FALSE,
     forecast_periods |-> <<>>, dynamic_periods |-> <<>>,
     is_single_location |-> FALSE, single_location_mapping |-> "none",
     location_data |-> [csv_path |-> FALSE, manual_mapping |-> "absent"],
     targets |-> <<>>, time_unit |-> [kind |-> "absent", n |-> 0],
     horizons |-> "absent", target_data_observation_format |-> "absent",
     models |-> <<>>, prediction_intervals |-> <<>>,
     baseline_model_for_relative_wis |-> "absent"]

(* Before the file is read: no document yet. *)
Unread == [layout |-> "unread"]

Init ==
    /\ doc = Unread
    /\ pc = "load_yaml"
    /\ raw_config = <<>>
    /\ validation_errors = <<>>
    /\ validation_warnings = <<>>
    /\ config = EmptyConfig
    /\ raised = "none"
    /\ NothingProcessed

(* One section ran: its errors and warnings are appended; it either raised *)
(* or handed over to the next section.                                     *)
Section(next, errors, warnings, exc) ==
    /\ validation_errors' = validation_errors \o errors
    /\ validation_warnings' = validation_warnings \o warnings
    /\ raised' = exc
    /\ pc' = IF exc = "none" THEN next ELSE "failed"
    /\ UNCHANGED dvars

(* __init__ line 137: _load_yaml reads the document at config_path, before *)
(* the two lists exist.                                                    *)
LoadYamlStep ==
    /\ pc = "load_yaml"
    /\ \E S \in DeviationSets : \E c \in ChoicesFor(S) :
          LET d == MkDocument(c)
              r == LoadYaml(d)
          IN /\ doc' = d
             /\ raw_config' = IF r = "ok" THEN YamlItems(d) ELSE <<>>
             /\ Section("links", <<>>, <<>>,
                    IF r = "ok" THEN "none" ELSE "MalformedDocument")
    /\ UNCHANGED config

(* _validate_data_source_links *)
ValidateDataSourceLinks ==
    /\ pc = "links"
    /\ LET has_online == HasKey(raw_config, "links_to_hubverse_compatible_data")
                         /\ doc.links.online
           has_local == doc.links.local
       IN /\ config' = [config EXCEPT !.target_data_link = has_online]
          /\ Section("parse_static",
                 IF has_online /\ has_local
                 THEN <<Err("data_source", "local_and_online", "")>> ELSE <<>>,
                 <<>>, "none")
    /\ UNCHANGED <<doc, raw_config>>

ParseForecastPeriods ==
    /\ pc = "parse_static"
    /\ LET r == ParseStaticFrom(
                    IF HasKey(raw_config, "forecast_periods") THEN doc.static ELSE <<>>,
                    <<>>, <<>>)
       IN /\ config' = IF r.raised = "none"
                       THEN [config EXCEPT !.forecast_periods = r.periods]
                       ELSE config
          /\ Section("parse_dynamic", r.errors, <<>>, r.raised)
    /\ UNCHANGED <<doc, raw_config>>

ParseDynamicPeriods ==
    /\ pc = "parse_dynamic"
    /\ LET r == ParseDynamicFrom(
                    IF HasKey(raw_config, "special_forecast_periods")
                    THEN doc.dynamic ELSE <<>>,
                    <<>>, <<>>)
       IN /\ config' = [config EXCEPT !.dynamic_periods = r.periods]
          /\ Section("validate_periods", r.errors, <<>>, r.raised)
    /\ UNCHANGED <<doc, raw_config>>

ValidateForecastPeriods ==
    /\ pc = "validate_periods"
    /\ LET r == ValidatePeriodsFrom(config.forecast_periods \o config.dynamic_periods,
                                    {}, {}, <<>>, <<>>)
       IN Section("location", r.errors, r.warnings, r.raised)
    /\ UNCHANGED <<doc, raw_config, config>>

LocationSection ==
    /\ pc = "location"
    /\ LET single == IsSingleLocation(raw_config, doc)
           loc == ParseLocationData(raw_config, doc)
           r == ValidateLocationData(single, loc)
       IN /\ config' = [config EXCEPT
                           !.is_single_location = single,
                           !.single_location_mapping =
                               ParseSingleLocationMapping(raw_config, doc, single),
                           !.location_data = loc]
          /\ Section("targets", r.errors, r.warnings, "none")
    /\ UNCHANGED <<doc, raw_config>>

ParseTargets ==
    /\ pc = "targets"
    /\ LET r == ParseTargetsFrom(
                    IF HasKey(raw_config, "targets") THEN doc.targets ELSE <<>>,
                    AllPeriodIds(config), <<>>, <<>>, <<>>)
       IN /\ config' = IF r.raised = "none" THEN [config EXCEPT !.targets = r.targets]
                       ELSE config
          /\ Section("time_unit", r.errors, r.warnings, r.raised)
    /\ UNCHANGED <<doc, raw_config>>

TimeUnitSection ==
    /\ pc = "time_unit"
    /\ LET r == TimeUnitCheck(raw_config, doc)
       IN /\ config' = [config EXCEPT !.time_unit = r.value]
          /\ Section("horizons", r.errors, r.warnings, r.raised)
    /\ UNCHANGED <<doc, raw_config>>

HorizonsSection ==
    /\ pc = "horizons"
    /\ LET v == IF HasKey(raw_config, "horizons") THEN doc.horizons ELSE "absent"
       IN /\ config' = [config EXCEPT !.horizons = v]
          /\ Section("observation_format",
                 IF v # "list" THEN <<Err("horizons", "required", "")>> ELSE <<>>,
                 <<>>, "none")
    /\ UNCHANGED <<doc, raw_config>>

ObservationFormatSection ==
    /\ pc = "observation_format"
    /\ LET missing == ~HasKey(raw_config, "target_data_observation_format")
       IN /\ config' = [config EXCEPT !.target_data_observation_format = "float"]
          /\ Section("models", <<>>,
                 IF missing
                 THEN <<Warn("target_data_observation_format", "defaulted", "")>>
                 ELSE <<>>,
                 "none")
    /\ UNCHANGED <<doc, raw_config>>

ModelsSection ==
    /\ pc = "models"
    /\ LET r == ValidateAndAssignModelColors(ParseModels(raw_config, doc))
       IN /\ config' = [config EXCEPT !.models = r.models]
          /\ Section("intervals", <<>>, r.warnings, "none")
    /\ UNCHANGED <<doc, raw_config>>

IntervalsSection ==
    /\ pc = "intervals"
    /\ LET r == ParsePredictionIntervals(raw_config, doc)
       IN /\ config' = [config EXCEPT !.prediction_intervals = r.intervals]
          /\ Section("baseline", r.errors, <<>>, r.raised)
    /\ UNCHANGED <<doc, raw_config>>

BaselineSection ==
    /\ pc = "baseline"
    /\ LET v == IF HasKey(raw_config, "baseline_model_for_relative_WIS")
                THEN doc.baseline ELSE "absent"
       IN /\ config' = [config EXCEPT !.baseline_model_for_relative_wis = v]
          /\ Section("final", <<>>, ValidateBaselineModel(v, config.models), "none")
    /\ UNCHANGED <<doc, raw_config>>

(* Lines 248-255: print the findings, raise when there is any error. *)
FinalValidation ==
    /\ pc = "final"
    /\ Section("constructed", <<>>, <<>>,
           IF ValidationFailed(validation_errors)
           THEN "ConfigurationValidationFailed" ELSE "none")
    /\ UNCHANGED <<doc, raw_config, config>>

(* load_config: re-raises what the constructor raised, checks              *)
(* has_validation_errors, returns the config.                              *)
LoadConfig ==
    /\ pc \in {"constructed", "failed"}
    /\ pc' = IF pc = "failed" THEN "load_config_raised"
             ELSE IF Len(validation_errors) > 0 THEN "load_config_raised"
             ELSE "returned"
    /\ raised' = IF pc = "constructed" /\ Len(validation_errors) > 0
                 THEN "InvalidConfiguration" ELSE raised
    /\ UNCHANGED <<doc, raw_config, validation_errors, validation_warnings, config>>
    /\ UNCHANGED dvars

Next ==
    \/ LoadYamlStep
    \/ ValidateDataSourceLinks
    \/ ParseForecastPeriods
    \/ ParseDynamicPeriods
    \/ ValidateForecastPeriods
    \/ LocationSection
    \/ ParseTargets
    \/ TimeUnitSection
    \/ HorizonsSection
    \/ ObservationFormatSection
    \/ ModelsSection
    \/ IntervalsSection
    \/ BaselineSection
    \/ FinalValidation
    \/ LoadConfig

Spec == Init /\ [][Next]_vars


(***************************************************************************)
(* Properties.                                                             *)
(***************************************************************************)
Sections ==
    <<"load_yaml", "links", "parse_static", "parse_dynamic", "validate_periods",
      "location", "targets", "time_unit", "horizons", "observation_format",
      "models", "intervals", "baseline", "final", "constructed", "returned">>

Rank == [p \in {Sections[i] : i \in DOMAIN Sections} |->
            CHOOSE i \in DOMAIN Sections : Sections[i] = p]

(* The section named has run to its end in this construction. *)
Completed(section) ==
    \/ pc \in DOMAIN Rank /\ Rank[pc] > Rank[section]
    \/ raised \in {"ConfigurationValidationFailed", "InvalidConfiguration"}

CountRule(errors, rule) == Cardinality({i \in DOMAIN errors : errors[i].rule = rule})

HasRule(errors, rule) == \E i \in DOMAIN errors : errors[i].rule = rule

ConstructionFailed == pc \in {"failed", "load_config_raised"}

(* C1: a DashboardConfig is held by a caller (the constructor returned, or *)
(* load_config returned it) only when its validation_errors list is empty; *)
(* with any error recorded, construction raised.                           *)
C1_ReturnedOnlyWithoutErrors ==
    /\ pc \in {"constructed", "returned"} => validation_errors = <<>>
    /\ validation_errors # <<>> /\ Completed("final") => ConstructionFailed

C1_Witness ==
    /\ pc = "load_config_raised"
    /\ raised = "ConfigurationValidationFailed"
    /\ validation_errors # <<>>

(* The rules of the validator a document violates, read off the document:  *)
(* two well-formed periods with one id, a well-formed static period that    *)
(* starts after it ends, no usable time_unit, no horizons list.            *)
WellFormedIds(d) ==
    [i \in 1..Len(SelectSeq(d.static, LAMBDA p : p.display # "absent")) |->
        SelectSeq(d.static, LAMBDA p : p.display # "absent")[i].id]
    \o [i \in DOMAIN d.dynamic |-> d.dynamic[i].id]

DocumentViolations(d) ==
    {r \in {"duplicate_id", "start_after_end", "required_time_unit", "required_horizons"} :
        \/ r = "duplicate_id"
           /\ Len(WellFormedIds(d)) > Cardinality(SeqToSet(WellFormedIds(d)))
        \/ r = "start_after_end"
           /\ \E i \in DOMAIN d.static :
                /\ d.static[i].display # "absent"
                /\ d.static[i].start # UnparsableDate
                /\ d.static[i].end # UnparsableDate
                /\ d.static[i].start > d.static[i].end
        \/ r = "required_time_unit"
           /\ (d.time_unit.kind = "absent" \/ (d.time_unit.kind = "int" /\ d.time_unit.n = 0))
        \/ r = "required_horizons" /\ d.horizons # "list"}

Recorded(errors, r) ==
    CASE r = "duplicate_id" -> HasRule(errors, "duplicate_id")
      [] r = "start_after_end" -> HasRule(errors, "start_after_end")
      [] r = "required_time_unit" ->
            \E i \in DOMAIN errors :
                errors[i].field = "time_unit" /\ errors[i].rule = "required"
      [] r = "required_horizons" ->
            \E i \in DOMAIN errors :
                errors[i].field = "horizons" /\ errors[i].rule = "required"

(* C2: validation never short-circuits: when construction of a list-rooted *)
(* document fails, every rule the document violates has its error in       *)
(* validation_errors, not only the first ones encountered.                 *)
C2_AllViolationsRecorded ==
    ConstructionFailed /\ raised # "MalformedDocument"
        => \A r \in DocumentViolations(doc) : Recorded(validation_errors, r)

(* C3: once the root has been accepted as a list, the only exception that  *)
(* leaves _parse_and_validate is the aggregate "Configuration validation   *)
(* failed": no parsing or validation rule raises on its own.               *)
C3_OnlyAggregateRaises ==
    pc = "failed" /\ raised # "MalformedDocument"
        => raised = "ConfigurationValidationFailed"

(* The root is a sequence of single-key mapping entries. *)
IsListOfSingleKeyMappings(d) ==
    /\ d.layout \in {"singletons", "with_scalar", "multi_key"}
    /\ \A i \in DOMAIN YamlItems(d) :
          YamlItems(d)[i].isdict /\ Cardinality(YamlItems(d)[i].keys) = 1

ParsedIds == AllPeriodIds(config)

C6_TargetPeriodsDefined ==
    pc = "returned" => UndefinedPeriodReferences(config) = {}

LocationErrors ==
    Cardinality({i \in DOMAIN validation_errors :
        validation_errors[i].field \in {"location_data", "single_location_mapping"}})

(* C7: right after the location section, single-location mode without a    *)
(* single_location_mapping has recorded exactly one error, and             *)
(* multi-location mode has recorded none for a missing location source.    *)
C7_LocationRuleByMode ==
    pc = "targets" =>
        /\ config.is_single_location /\ config.single_location_mapping = "none"
              => LocationErrors = 1
        /\ ~config.is_single_location => LocationErrors = 0

StaticPeriodIds ==
    {config.forecast_periods[i].period_id : i \in DOMAIN config.forecast_periods}

(* C8: every dynamic period of a returned config has a time_anchor whose   *)
(* anchor_on is the period_id of a defined static period.                  *)
C8_DynamicPeriodsAnchored ==
    pc = "returned" =>
        \A j \in DOMAIN config.dynamic_periods :
            /\ config.dynamic_periods[j].time_anchor.set
            /\ config.dynamic_periods[j].time_anchor.anchor_on \in StaticPeriodIds

(* C9: every dynamic period of a returned config has a range_calculation   *)
(* that is present, an integer, and <= 0.                                  *)
C9_RangeCalculationBackward ==
    pc = "returned" =>
        \A j \in DOMAIN config.dynamic_periods :
            /\ config.dynamic_periods[j].range_calculation.kind = "int"
            /\ config.dynamic_periods[j].range_calculation.n <= 0

BaselineIsConfiguredModel ==
    \E i \in DOMAIN config.models :
        config.models[i].model_name = config.baseline_model_for_relative_wis

BaselineFindings(findings) ==
    Cardinality({i \in DOMAIN findings :
        findings[i].field = "baseline_model_for_relative_WIS"})

C11_RequiredCollectionsNonEmpty ==
    pc = "returned" =>
        /\ config.targets # <<>>
        /\ config.models # <<>>
        /\ config.prediction_intervals # <<>>

(***************************************************************************)
(* Colour assignment on its own: documents with up to MaxPaletteModels     *)
(* models, each with or without a color_hex, taken through the models      *)
(* section of _parse_and_validate.                                         *)
(***************************************************************************)
PaletteDocument(colors) ==
    [MkDocument(Base) EXCEPT
        !.models = [i \in DOMAIN colors |->
                       [name |-> "m" \o ToString(i), color_hex |-> colors[i]]]]

ColorInit ==
    /\ \E colors \in SeqUpTo({"absent", "#123456"}, MaxPaletteModels) :
          /\ doc = PaletteDocument(colors)
          /\ raw_config = YamlItems(PaletteDocument(colors))
    /\ pc = "models"
    /\ validation_errors = <<>>
    /\ validation_warnings = <<>>
    /\ config = EmptyConfig
    /\ raised = "none"
    /\ NothingProcessed

ColorSpec == ColorInit /\ [][ModelsSection]_vars

(* The number of models before position j that came without a color_hex. *)
ColourlessBefore(j) ==
    Cardinality({i \in 1..(j - 1) : doc.models[i].color_hex = "absent"})

(* C12: after the models section, the i-th (0-based) model that came       *)
(* without color_hex has palette[i mod 10], a model that specified a       *)
(* color_hex keeps it, and every model has a color_hex.                    *)
C12_CyclicPalette ==
    pc = "intervals" =>
        /\ Len(config.models) = Len(doc.models)
        /\ \A j \in DOMAIN config.models :
              /\ config.models[j].model_name = doc.models[j].name
              /\ config.models[j].color_hex # "absent"
              /\ config.models[j].color_hex =
                    IF doc.models[j].color_hex = "absent"
                    THEN DEFAULT_COLOR_PALETTE[(ColourlessBefore(j) % 10) + 1]
                    ELSE doc.models[j].color_hex

C12_Witness ==
    /\ pc = "intervals"
    /\ Len(config.models) = 12
    /\ \A j \in DOMAIN doc.models : doc.models[j].color_hex = "absent"
    /\ config.models[11].color_hex = DEFAULT_COLOR_PALETTE[1]
    /\ config.models[12].color_hex = DEFAULT_COLOR_PALETTE[2]

(***************************************************************************)
(* get_all_quantiles.  An output_type_id is the string str(x) of the       *)
(* configured value; float() gives its numeric value ("0.5" and "0.50"     *)
(* are two strings with one value).  Values are written in hundredths.     *)
(***************************************************************************)
OutputTypeIds == {"0.25", "0.5", "0.50", "0.75"}

Float(x) ==
    CASE x = "0.25" -> 25
      [] x = "0.5" -> 50
      [] x = "0.50" -> 50
      [] x = "0.75" -> 75

(* sorted(ids, key=float): the orderings of the ids of S that ascend by    *)
(* float value; ids of equal value come in the order the set yields them.  *)
SortedByFloat(S) ==
    {q \in [1..Cardinality(S) -> S] :
        /\ \A i, j \in DOMAIN q : i # j => q[i] # q[j]
        /\ \A i, j \in DOMAIN q : i < j => Float(q[i]) <= Float(q[j])}

(* PredictionInterval with __post_init__ applied to the ids of S. *)
MkInterval(level, S) ==
    [level |-> level, output_type_ids |-> CHOOSE q \in SortedByFloat(S) : TRUE]

IntervalLists ==
    {[i \in DOMAIN ss |-> MkInterval(50, ss[i])] :
        ss \in SeqUpTo(SUBSET OutputTypeIds \ {{}}, MaxIntervals)}

RECURSIVE IdsOf(_)
IdsOf(intervals) ==
    IF intervals = <<>> THEN {}
    ELSE SeqToSet(Head(intervals).output_type_ids) \cup IdsOf(Tail(intervals))

GetAllQuantilesWithoutMedian(cfg) ==
    SortedByFloat(IdsOf(cfg.prediction_intervals) \cup IdsOf(cfg.evaluation_intervals))

(* The lists get_all_quantiles can return. *)
GetAllQuantiles(cfg) ==
    SortedByFloat({"0.5"} \cup IdsOf(cfg.prediction_intervals)
                          \cup IdsOf(cfg.evaluation_intervals))

QuantileInit ==
    /\ \E p \in IntervalLists, e \in IntervalLists :
          config = [evaluation_intervals |-> e]
                   @@ [EmptyConfig EXCEPT !.prediction_intervals = p]
    /\ pc = "returned"
    /\ doc = Unread
    /\ raw_config = <<>>
    /\ validation_errors = <<>>
    /\ validation_warnings = <<>>
    /\ raised = "none"
    /\ NothingProcessed

CallGetAllQuantiles ==
    /\ pc = "returned"
    /\ quantiles' \in GetAllQuantiles(config)
    /\ pc' = "quantiles_returned"
    /\ UNCHANGED <<doc, raw_config, validation_errors, validation_warnings, config, raised>>
    /\ UNCHANGED <<target_data_df, model_output_df, locations, processed_data,
                   metadata, logged, target_data_path, model_output_path, wvars>>

QuantileSpec == QuantileInit /\ [][CallGetAllQuantiles]_vars

(* C13: get_all_quantiles returns the ids of all display and evaluation    *)
(* intervals plus "0.5", each id once, ascending by numeric value.         *)
C13_QuantilesSortedWithMedian ==
    pc = "quantiles_returned" =>
        /\ SeqToSet(quantiles)
              = {"0.5"} \cup UNION {SeqToSet(config.prediction_intervals[i].output_type_ids)
                                       : i \in DOMAIN config.prediction_intervals}
                        \cup UNION {SeqToSet(config.evaluation_intervals[i].output_type_ids)
                                       : i \in DOMAIN config.evaluation_intervals}
        /\ Cardinality(SeqToSet(quantiles)) = Len(quantiles)
        /\ \A i \in 1..(Len(quantiles) - 1) : Float(quantiles[i]) <= Float(quantiles[i + 1])
        /\ \E i \in DOMAIN quantiles : quantiles[i] = "0.5"

C13_Witness ==
    /\ pc = "quantiles_returned"
    /\ config.prediction_intervals # <<>>
    /\ config.evaluation_intervals # <<>>
    /\ \A i \in DOMAIN config.prediction_intervals :
          "0.5" \notin SeqToSet(config.prediction_intervals[i].output_type_ids)
    /\ \A i \in DOMAIN config.evaluation_intervals :
          "0.5" \notin SeqToSet(config.evaluation_intervals[i].output_type_ids)
    /\ Len(quantiles) = 3

(***************************************************************************)
(* DataProcessor (scripts/data_processor.py).  A table is its set of       *)
(* column names and its rows in order; a date is a day number, NaT the     *)
(* missing date that max() of an empty column gives.  A config object is   *)
(* a record of the attributes DataProcessor reads; reading an attribute    *)
(* the object does not carry raises AttributeError.                        *)
(***************************************************************************)
NaT == 0

HasAttr(obj, name) == name \in DOMAIN obj

(* df[col].max(): the greatest value, NaT for a column with no rows. *)
FirstOf(rows, col) ==
    IF rows = <<>> THEN NaT ELSE rows[1][col]

MaxOf(rows, col) ==
    IF rows = <<>> THEN NaT
    ELSE LET values == {rows[i][col] : i \in DOMAIN rows}
         IN  CHOOSE max \in values : \A v \in values : v <= max

(* df[(df[col] >= start) & (df[col] <= end)] *)
BetweenExclusiveEnd(rows, col, start, end) ==
    SelectSeq(rows, LAMBDA r : r[col] >= start /\ r[col] < end)

Between(rows, col, start, end) ==
    SelectSeq(rows, LAMBDA r : r[col] >= start /\ r[col] <= end)

(* Lines 353-356: the model-output keys of the targets that list the period. *)
ValidModelTargets(cfg, period) ==
    {cfg.targets[i].corresponding_key_in_model_output :
        i \in {k \in DOMAIN cfg.targets :
                 period.period_id \in SeqToSet(cfg.targets[k].forecast_periods)}}

(* Lines 360-363: groupby("target"), kept for the valid targets only. *)
GroupedByAnyTarget(rows, valid) ==
    [k \in {rows[i].target : i \in DOMAIN rows} |->
        SelectSeq(rows, LAMBDA r : r.target = k)]

GroupedByValidTarget(rows, valid) ==
    [k \in {rows[i].target : i \in DOMAIN rows} \cap valid |->
        SelectSeq(rows, LAMBDA r : r.target = k)]

(* Lines 318-344: the bounds of one period, the warning that skips it, or  *)
(* the exception raised.  None * time_unit raises TypeError.               *)
ResolveTargetDataByDefault(cfg, period, tdf, mdf) ==
    IF ~HasAttr(period, "is_special_period")
    THEN [outcome |-> "AttributeError"]
    ELSE IF ~period.is_special_period
    THEN [outcome |-> "resolved", start |-> period.start_date, end |-> period.end_date]
    ELSE IF ~period.time_anchor.set
    THEN [outcome |-> "skipped", warning |-> "missing_time_anchor"]
    ELSE LET anchor_mode == period.time_anchor.anchor_mode
             range_calc == period.time_anchor.range_calculation
             anchor_date == IF anchor_mode = "model-output"
                            THEN MaxOf(mdf.rows, "reference_date")
                            ELSE MaxOf(tdf.rows, "date")
         IN  IF anchor_date = NaT
             THEN [outcome |-> "skipped", warning |-> "no_anchor_date"]
             ELSE IF range_calc.kind # "int"
             THEN [outcome |-> "TypeError"]
             ELSE [outcome |-> "resolved",
                   start |-> anchor_date + range_calc.n * cfg.time_unit.n,
                   end |-> anchor_date]

Resolve(cfg, period, tdf, mdf) ==
    IF ~HasAttr(period, "is_special_period")
    THEN [outcome |-> "AttributeError"]
    ELSE IF ~period.is_special_period
    THEN [outcome |-> "resolved", start |-> period.start_date, end |-> period.end_date]
    ELSE IF ~period.time_anchor.set
    THEN [outcome |-> "skipped", warning |-> "missing_time_anchor"]
    ELSE LET anchor_mode == period.time_anchor.anchor_mode
             range_calc == period.time_anchor.range_calculation
             anchor_date == IF anchor_mode = "model-output"
                            THEN MaxOf(mdf.rows, "reference_date")
                            ELSE MaxOf(tdf.rows, "date")
         IN  IF anchor_mode \notin {"model-output", "target-data"}
             THEN [outcome |-> "skipped", warning |-> "invalid_anchor_mode"]
             ELSE IF anchor_date = NaT
             THEN [outcome |-> "skipped", warning |-> "no_anchor_date"]
             ELSE IF range_calc.kind # "int"
             THEN [outcome |-> "TypeError"]
             ELSE [outcome |-> "resolved",
                   start |-> anchor_date + range_calc.n * cfg.time_unit.n,
                   end |-> anchor_date]

(* Lines 346-367: the entry stored under the period's id. *)
PeriodEntry(cfg, period, tdf, mdf, start, end) ==
    LET period_target_data == Between(tdf.rows, "date", start, end)
        period_model_output == Between(mdf.rows, "reference_date", start, end)
    IN  IF ~cfg.is_single_target /\ "target" \in mdf.columns
        THEN [target_data |-> period_target_data,
              model_output_by_target |->
                  GroupedByValidTarget(period_model_output,
                                       ValidModelTargets(cfg, period))]
        ELSE [target_data |-> period_target_data,
              model_output |-> period_model_output]

(* Lines 349-350: a slice is a boolean-mask selection followed by .copy(),  *)
(* a new frame; the shared table the next period reads is the one this     *)
(* period read.                                                            *)
SlicedInPlace(df, col, start, end) ==
    [df EXCEPT !.rows = Between(df.rows, col, start, end)]

SharedAfterSlice(df, col, start, end) == df

(* _process_and_structure_data: the loop over static + dynamic periods.     *)
(* Each skip logs its warning; each resolved period logs the line          *)
(* "Processing data for period: 'id' (start to end)".  The result carries  *)
(* the shared tables as the loop leaves them.                              *)
RECURSIVE ProcessPeriodsFrom(_, _, _, _, _, _)
ProcessPeriodsFrom(periods, cfg, tdf, mdf, processed, log) ==
    IF periods = <<>>
    THEN [processed_data |-> processed, logged |-> log, raised |-> "none",
          target_data_df |-> tdf, model_output_df |-> mdf]
    ELSE LET period == Head(periods)
             r == Resolve(cfg, period, tdf, mdf)
         IN  CASE r.outcome = "skipped" ->
                    ProcessPeriodsFrom(Tail(periods), cfg, tdf, mdf, processed,
                        Append(log, [level |-> "warning", warning |-> r.warning,
                                     period_id |-> period.period_id]))
               [] r.outcome = "resolved" ->
                    ProcessPeriodsFrom(Tail(periods), cfg,
                        SharedAfterSlice(tdf, "date", r.start, r.end),
                        SharedAfterSlice(mdf, "reference_date", r.start, r.end),
                        (period.period_id :>
                            PeriodEntry(cfg, period, tdf, mdf, r.start, r.end))
                        @@ processed,
                        Append(log, [level |-> "info", period_id |-> period.period_id,
                                     start |-> r.start, end |-> r.end]))
               [] OTHER ->
                    [processed_data |-> <<>>, logged |-> log, raised |-> r.outcome,
                     target_data_df |-> tdf, model_output_df |-> mdf]

ProcessAndStructureData(cfg, tdf, mdf) ==
    ProcessPeriodsFrom(cfg.forecast_periods \o cfg.dynamic_periods, cfg, tdf, mdf,
                       <<>>, <<>>)

(***************************************************************************)
(* _generate_metadata.  isoformat() turns a date into its ISO string.      *)
(***************************************************************************)
IsoFormat(d) == [iso |-> d]

None == [none |-> TRUE]

RECURSIVE DynamicPeriodsInfoFrom(_, _, _, _, _)
DynamicPeriodsInfoFrom(periods, cfg, latest_model_ref_date, latest_target_date, info) ==
    IF periods = <<>> THEN [info |-> info, raised |-> "none"]
    ELSE LET period == Head(periods)
             anchor_config == period.time_anchor
             anchor_date == IF anchor_config.anchor_mode = "model-output"
                            THEN latest_model_ref_date ELSE latest_target_date
         IN  IF ~anchor_config.set \/ anchor_date = NaT
             THEN DynamicPeriodsInfoFrom(Tail(periods), cfg, latest_model_ref_date,
                                         latest_target_date, info)
             ELSE IF anchor_config.range_calculation.kind # "int"
             THEN [info |-> info, raised |-> "TypeError"]
             ELSE DynamicPeriodsInfoFrom(Tail(periods), cfg, latest_model_ref_date,
                      latest_target_date,
                      Append(info,
                          [label |-> period.period_id,
                           displayString |-> period.display_string,
                           isDynamic |-> TRUE,
                           startDate |-> IsoFormat(anchor_date
                               + anchor_config.range_calculation.n * cfg.time_unit.n),
                           endDate |-> IsoFormat(anchor_date)]))

GenerateMetadata(cfg, locs, mdf, tdf) ==
    LET latest_model_ref_date == MaxOf(mdf.rows, "reference_date")
        latest_target_date == MaxOf(tdf.rows, "date")
        dyn == DynamicPeriodsInfoFrom(cfg.dynamic_periods, cfg, latest_model_ref_date,
                                      latest_target_date, <<>>)
    IN  [raised |-> dyn.raised,
         value |->
            [locations |-> locs,
             fullRangeSeasons |->
                 [i \in DOMAIN cfg.forecast_periods |->
                     [seasonId |-> cfg.forecast_periods[i].period_id,
                      displayString |-> cfg.forecast_periods[i].display_string,
                      startDate |-> IsoFormat(cfg.forecast_periods[i].start_date),
                      endDate |-> IsoFormat(cfg.forecast_periods[i].end_date)]],
             dynamicTimePeriod |-> dyn.info,
             modelNames |-> [i \in DOMAIN cfg.models |-> cfg.models[i].model_name],
             defaultSelectedDate |-> IF latest_model_ref_date # NaT
                                     THEN IsoFormat(latest_model_ref_date) ELSE None]]

(***************************************************************************)
(* _detect_locations.  Location codes are strings, ordered as Python       *)
(* orders them; LocationCodes lists the explored ones in that order.       *)
(***************************************************************************)
LocationCodes == <<"01", "02", "1">>

CodeRank(code) == CHOOSE i \in DOMAIN LocationCodes : LocationCodes[i] = code

(* str(loc_id).zfill(2) *)
ZFill2(code) == IF code = "1" THEN "01" ELSE code

(* dict.get(key, default) *)
Get(d, key, default) == IF key \in DOMAIN d THEN d[key] ELSE default

(* drop_duplicates(keep="first"): keys[i] is the value row i is compared on *)
RECURSIVE DropDuplicatesFrom(_, _, _, _)
DropDuplicatesFrom(rows, keys, seen, kept) ==
    IF rows = <<>> THEN kept
    ELSE IF Head(keys) \in seen
    THEN DropDuplicatesFrom(Tail(rows), Tail(keys), seen, kept)
    ELSE DropDuplicatesFrom(Tail(rows), Tail(keys), seen \cup {Head(keys)},
                            Append(kept, Head(rows)))

DropDuplicates(rows) == DropDuplicatesFrom(rows, rows, {}, <<>>)

(* sort_values(by="location") of rows with distinct locations *)
RECURSIVE SortByLocation(_)
SortByLocation(rows) ==
    IF rows = <<>> THEN <<>>
    ELSE LET first == CHOOSE i \in DOMAIN rows :
                          \A j \in DOMAIN rows :
                              CodeRank(rows[i].location) <= CodeRank(rows[j].location)
         IN  <<rows[first]>>
             \o SortByLocation([k \in 1..(Len(rows) - 1) |->
                                   IF k < first THEN rows[k] ELSE rows[k + 1]])

LocationPairs(rows) ==
    [i \in DOMAIN rows |->
        [location |-> rows[i].location, location_name |-> rows[i].location_name]]

DetectLocationsModelFirst(cfg, tdf, mdf) ==
    LET has_target_locations == {"location", "location_name"} \subseteq tdf.columns
        target_locations ==
            IF has_target_locations
            THEN DropDuplicates(LocationPairs(tdf.rows))
            ELSE <<>>
        model_loc_ids ==
            IF "location" \in mdf.columns
            THEN DropDuplicates([i \in DOMAIN mdf.rows |-> mdf.rows[i].location])
            ELSE <<>>
    IN  IF model_loc_ids # <<>> /\ ~HasAttr(cfg, "us_state_fips_mapping")
        THEN [raised |-> "AttributeError", value |-> <<>>]
        ELSE LET model_locations ==
                     [i \in DOMAIN model_loc_ids |->
                         [location |-> model_loc_ids[i],
                          location_name |-> Get(cfg.us_state_fips_mapping,
                                                ZFill2(model_loc_ids[i]), "Unknown")]]
                 all_locations == model_locations \o target_locations
             IN  IF ~has_target_locations /\ model_locations = <<>>
                 THEN [raised |-> "KeyError", value |-> <<>>]
                 ELSE [raised |-> "none",
                       value |-> SortByLocation(
                           DropDuplicatesFrom(all_locations,
                               [i \in DOMAIN all_locations |-> all_locations[i].location],
                               {}, <<>>))]

DetectLocations(cfg, tdf, mdf) ==
    LET has_target_locations == {"location", "location_name"} \subseteq tdf.columns
        target_locations ==
            IF has_target_locations
            THEN DropDuplicates(LocationPairs(tdf.rows))
            ELSE <<>>
        model_loc_ids ==
            IF "location" \in mdf.columns
            THEN DropDuplicates([i \in DOMAIN mdf.rows |-> mdf.rows[i].location])
            ELSE <<>>
    IN  IF model_loc_ids # <<>> /\ ~HasAttr(cfg, "us_state_fips_mapping")
        THEN [raised |-> "AttributeError", value |-> <<>>]
        ELSE LET model_locations ==
                     [i \in DOMAIN model_loc_ids |->
                         [location |-> model_loc_ids[i],
                          location_name |-> Get(cfg.us_state_fips_mapping,
                                                ZFill2(model_loc_ids[i]), "Unknown")]]
                 all_locations == target_locations \o model_locations
             IN  IF ~has_target_locations /\ model_locations = <<>>
                 THEN [raised |-> "KeyError", value |-> <<>>]
                 ELSE [raised |-> "none",
                       value |-> SortByLocation(
                           DropDuplicatesFrom(all_locations,
                               [i \in DOMAIN all_locations |-> all_locations[i].location],
                               {}, <<>>))]

(***************************************************************************)
(* DataProcessor.run from the two loaded tables on: detect locations,      *)
(* partition by period, generate metadata.  The explored inputs vary the   *)
(* periods (ResolveInputs), the rows around a period's bounds              *)
(* (PartitionInputs) or the location columns (LocationInputs).             *)
(***************************************************************************)
StaticPeriod(id, start, end) ==
    [period_id |-> id, display_string |-> id, start_date |-> start, end_date |-> end,
     is_special_period |-> FALSE,
     time_anchor |-> [set |-> FALSE, anchor_mode |-> "None", range_calculation |-> NoRange]]

NoTimeAnchor == [set |-> FALSE, anchor_mode |-> "None", range_calculation |-> NoRange]

AnchorModes == {"model-output", "target-data", "latest"}

TimeAnchors ==
    {NoTimeAnchor}
    \cup [set : {TRUE}, anchor_mode : AnchorModes,
          range_calculation : {NoRange, IntRange(-1), IntRange(1)}]

DynamicPeriod(id, anchor) ==
    [period_id |-> id, display_string |-> id,
     start_date |-> PlaceholderDate, end_date |-> PlaceholderDate,
     is_special_period |-> TRUE, time_anchor |-> anchor]

Target(periods) ==
    [target_column_in_target_data |-> "t1", corresponding_key_in_model_output |-> "t1",
     forecast_periods |-> periods]

US_STATE_FIPS == ("01" :> "Alabama")

(* The names the operator gave the columns of the two kinds of file. *)
ColumnMappingOf(as_of_col) ==
    [date_col |-> "Date", observation_col |-> "Obs", location_col |-> "",
     location_name_col |-> "", target_col |-> "", as_of_col |-> as_of_col,
     reference_date_col |-> "origin", target_end_date_col |-> "end",
     model_target_col |-> "target", horizon_col |-> "h",
     output_type_col |-> "type", output_type_id_col |-> "type_id", value_col |-> "val"]

BaseDataConfig ==
    [forecast_periods |-> <<StaticPeriod("s1", 2, 3)>>,
     dynamic_periods |-> <<>>,
     targets |-> <<Target(<<"s1", "d1">>)>>,
     time_unit |-> [kind |-> "int", n |-> 1],
     is_single_target |-> FALSE,
     models |-> <<[model_name |-> "m1", color_hex |-> "#123456"]>>,
     us_state_fips_mapping |-> US_STATE_FIPS,
     target_data_file_format |-> "csv",
     column_mapping |-> ColumnMappingOf("AsOf")]

TargetRow(date) == [date |-> date, location |-> "01", location_name |-> "Alabama"]

ModelRow(date, target) == [reference_date |-> date, target |-> target, location |-> "01"]

TargetColumns == {"date", "observation", "location", "location_name"}

ModelColumns == {"reference_date", "target_end_date", "target", "location", "model"}

DynamicPeriodIds == <<"d1", "d2">>

ResolveInputs ==
    {[config |-> [BaseDataConfig EXCEPT
                     !.forecast_periods = st,
                     !.dynamic_periods =
                         [i \in DOMAIN as |-> DynamicPeriod(DynamicPeriodIds[i], as[i])],
                     !.time_unit = [kind |-> "int", n |-> tu]],
      target_data_df |-> [columns |-> TargetColumns,
                          rows |-> [i \in DOMAIN td |-> TargetRow(td[i])]],
      model_output_df |-> [columns |-> ModelColumns,
                           rows |-> [i \in DOMAIN md |-> ModelRow(md[i], "t1")]]] :
        st \in {<<>>, <<StaticPeriod("s1", 2, 3)>>},
        as \in {<<>>} \cup {<<a>> : a \in TimeAnchors} \cup (TimeAnchors \X TimeAnchors),
        tu \in {1, 2},
        td \in {<<>>, <<3>>}, md \in {<<>>, <<4, 1>>}}

(* The tables of at most MaxRows rows, in ascending order of k. *)
Ascending(n) ==
    {q \in SeqUpTo(1..n, MaxRows) : \A i \in DOMAIN q : i > 1 => q[i - 1] < q[i]}

ModelTargets == <<"t1", "zz">>

TargetTables == {[i \in DOMAIN q |-> TargetRow(q[i])] : q \in Ascending(MaxDay)}

ModelTables ==
    {[i \in DOMAIN q |-> ModelRow((q[i] + 1) \div 2, ModelTargets[(q[i] % 2) + 1])] :
        q \in Ascending(2 * MaxDay)}

PartitionInputs ==
    {[config |-> [BaseDataConfig EXCEPT
                     !.dynamic_periods =
                         <<DynamicPeriod("d1",
                             [set |-> TRUE, anchor_mode |-> "model-output",
                              range_calculation |-> IntRange(-1)])>>,
                     !.targets = tg,
                     !.is_single_target = shape[1]],
      target_data_df |-> [columns |-> TargetColumns, rows |-> tables[1]],
      model_output_df |-> [columns |-> ModelColumns \ shape[2], rows |-> tables[2]]] :
        tg \in {<<>>, <<Target(<<"s1", "d1">>)>>, <<Target(<<"d1">>)>>},
        shape \in {<<FALSE, {}>>, <<TRUE, {}>>, <<FALSE, {"target"}>>},
        tables \in (TargetTables \X {<<ModelRow(3, "t1")>>})
                   \cup ({<<TargetRow(3), TargetRow(4)>>} \X ModelTables)}

NamedLocations == {<<"01", "Alabama">>, <<"01", "AL">>, <<"02", "Alaska">>, <<"1", "One">>}

LocationInputs ==
    {[config |-> BaseDataConfig,
      target_data_df |-> [columns |-> TargetColumns \ nocolt,
                          rows |-> [i \in DOMAIN td |->
                                      [date |-> 3, location |-> td[i][1],
                                       location_name |-> td[i][2]]]],
      model_output_df |-> [columns |-> ModelColumns \ model[1],
                           rows |-> [i \in DOMAIN model[2] |->
                                       [reference_date |-> 3, target |-> "t1",
                                        location |-> model[2][i]]]]] :
        nocolt \in {{}, {"location_name"}, {"location", "location_name"}},
        td \in SeqUpTo(NamedLocations, MaxRows),
        model \in ({{}} \X SeqUpTo(SeqToSet(LocationCodes), MaxRows))
                  \cup {<<{"location"}, <<"01">>>>}}

DataInit ==
    /\ \E in \in ResolveInputs \cup PartitionInputs \cup LocationInputs :
          /\ config = in.config
          /\ target_data_df = in.target_data_df
          /\ model_output_df = in.model_output_df
    /\ pc = "detect_locations"
    /\ doc = Unread
    /\ raw_config = <<>>
    /\ validation_errors = <<>>
    /\ validation_warnings = <<>>
    /\ raised = "none"
    /\ quantiles = NotComputed
    /\ locations = NotComputed
    /\ processed_data = NotComputed
    /\ metadata = NotComputed
    /\ logged = <<>>
    /\ target_data_path = NoCsv
    /\ model_output_path = <<>>
    /\ NoWorkflow

(* One stage of run() ended: handing over, or leaving run() with an exception. *)
Stage(next, left, exc) ==
    /\ pc' = IF exc = "none" THEN next ELSE left
    /\ raised' = exc
    /\ UNCHANGED <<doc, raw_config, validation_errors, validation_warnings, config,
                   quantiles, target_data_df, model_output_df,
                   target_data_path, model_output_path, wvars>>

DetectLocationsStage ==
    /\ pc = "detect_locations"
    /\ LET r == DetectLocations(config, target_data_df, model_output_df)
       IN /\ locations' = r.value
          /\ Stage("partition", "detect_locations_raised", r.raised)
    /\ UNCHANGED <<processed_data, metadata, logged>>

PartitionStage ==
    /\ pc = "partition"
    /\ LET r == ProcessAndStructureData(config, target_data_df, model_output_df)
       IN /\ processed_data' = r.processed_data
          /\ logged' = logged \o r.logged
          /\ target_data_df' = r.target_data_df
          /\ model_output_df' = r.model_output_df
          /\ pc' = IF r.raised = "none" THEN "generate_metadata" ELSE "partition_raised"
          /\ raised' = r.raised
    /\ UNCHANGED <<doc, raw_config, validation_errors, validation_warnings, config,
                   quantiles, target_data_path, model_output_path, locations, metadata,
                   wvars>>

MetadataStage ==
    /\ pc = "generate_metadata"
    /\ LET r == GenerateMetadata(config, locations, model_output_df, target_data_df)
       IN /\ metadata' = IF r.raised = "none" THEN r.value ELSE metadata
          /\ Stage("run_returned", "generate_metadata_raised", r.raised)
    /\ UNCHANGED <<locations, processed_data, logged>>

DataNext ==
    \/ DetectLocationsStage
    \/ PartitionStage
    \/ MetadataStage

DataSpec == DataInit /\ [][DataNext]_vars

(***************************************************************************)
(* Properties of the partitioner, the metadata and the location catalog.   *)
(***************************************************************************)
AllPeriods == config.forecast_periods \o config.dynamic_periods

PeriodIds == {AllPeriods[i].period_id : i \in DOMAIN AllPeriods}

PeriodOf(id) == AllPeriods[CHOOSE i \in DOMAIN AllPeriods : AllPeriods[i].period_id = id]

(* The freshest date of a table: no row of the table is dated later. *)
Freshest(df, col) ==
    IF df.rows = <<>> THEN NaT
    ELSE CHOOSE d \in 1..(MaxDay + 1) :
            /\ \E i \in DOMAIN df.rows : df.rows[i][col] = d
            /\ \A i \in DOMAIN df.rows : df.rows[i][col] <= d

PartitionReturned == pc = "generate_metadata"

ProcessingLines(id) ==
    {i \in DOMAIN logged : logged[i].level = "info" /\ logged[i].period_id = id}

Warnings(id) ==
    {i \in DOMAIN logged : logged[i].level = "warning" /\ logged[i].period_id = id}

Unresolved == [resolves |-> FALSE, start |-> NaT, end |-> NaT]

(* The bounds the claim gives a period; target_modes are the anchor modes  *)
(* besides "model-output" that select the freshest target date.            *)
ExpectedBounds(p, target_modes) ==
    IF ~p.is_special_period
    THEN [resolves |-> TRUE, start |-> p.start_date, end |-> p.end_date]
    ELSE IF ~p.time_anchor.set THEN Unresolved
    ELSE LET mode == p.time_anchor.anchor_mode
             anchor == IF mode = "model-output"
                       THEN Freshest(model_output_df, "reference_date")
                       ELSE IF mode \in target_modes
                       THEN Freshest(target_data_df, "date")
                       ELSE NaT
         IN  IF anchor = NaT THEN Unresolved
             ELSE [resolves |-> TRUE,
                   start |-> anchor + p.time_anchor.range_calculation.n
                                      * config.time_unit.n,
                   end |-> anchor]

ResolvesAs(target_modes) ==
    /\ \A i \in DOMAIN logged :
          logged[i].level = "info" =>
              LET e == ExpectedBounds(PeriodOf(logged[i].period_id), target_modes)
              IN  e.resolves /\ logged[i].start = e.start /\ logged[i].end = e.end
    /\ PartitionReturned =>
          \A id \in PeriodIds :
              LET e == ExpectedBounds(PeriodOf(id), target_modes)
              IN  /\ e.resolves <=> ProcessingLines(id) # {}
                  /\ e.resolves <=> id \in DOMAIN processed_data

BoundsIn(log, id) ==
    {<<log[i].start, log[i].end>> :
        i \in {k \in DOMAIN log : log[k].level = "info" /\ log[k].period_id = id}}

DynamicPeriodIdsOf(cfg) == {cfg.dynamic_periods[i].period_id : i \in DOMAIN cfg.dynamic_periods}

(* A second resolution, over other tables, gives every dynamic period the bounds logged. *)
ResolvesAlike(tdf, mdf) ==
    LET second == ProcessAndStructureData(config, tdf, mdf)
    IN  /\ second.raised = "none"
        /\ \A id \in DynamicPeriodIdsOf(config) :
              BoundsIn(second.logged, id) = BoundsIn(logged, id)

SameFreshestTargetTables ==
    {t \in TargetTables :
        Freshest([rows |-> t], "date") = Freshest(target_data_df, "date")}

SameFreshestModelTables ==
    {m \in ModelTables :
        Freshest([rows |-> m], "reference_date")
            = Freshest(model_output_df, "reference_date")}

(* C15: the bounds of every dynamic period depend on the tables through    *)
(* their freshest dates only: resolving over any other target table with   *)
(* the same freshest date, or any other model table with the same freshest *)
(* reference_date, under the same config (range_calculation, time_unit),   *)
(* yields the identical (start, end) pairs.                                *)
C15_ResolutionDeterminedByFreshestDates ==
    PartitionReturned =>
        /\ \A t \in SameFreshestTargetTables :
              ResolvesAlike([target_data_df EXCEPT !.rows = t], model_output_df)
        /\ \A m \in SameFreshestModelTables :
              ResolvesAlike(target_data_df, [model_output_df EXCEPT !.rows = m])

(* A dynamic period resolved from a model table of two rows, while another *)
(* table has the same freshest reference_date and other rows.              *)
C15_Witness ==
    /\ PartitionReturned
    /\ Len(model_output_df.rows) = 2
    /\ \E id \in DynamicPeriodIdsOf(config) : BoundsIn(logged, id) # {}
    /\ \E m \in SameFreshestModelTables : m # model_output_df.rows

Count(seq, r) == Cardinality({i \in DOMAIN seq : seq[i] = r})

(* The slice holds exactly the rows of the table that are among admitted. *)
HoldsExactly(slice, rows, admitted) ==
    \A r \in SeqToSet(rows) \cup SeqToSet(slice) :
        Count(slice, r) = IF r \in admitted THEN Count(rows, r) ELSE 0

TargetRowsWithin(b) ==
    {r \in SeqToSet(target_data_df.rows) : b[1] <= r.date /\ r.date <= b[2]}

ModelRowsWithin(b) ==
    {r \in SeqToSet(model_output_df.rows) :
        b[1] <= r.reference_date /\ r.reference_date <= b[2]}

(* C16: for every period with resolved [start, end], target_data holds     *)
(* exactly the target rows with start <= date <= end, and the model slice  *)
(* (whole, or the rows of each retained target) exactly the model rows     *)
(* with start <= reference_date <= end: both bounds are inclusive.         *)
C16_InclusiveBounds ==
    PartitionReturned =>
        \A id \in DOMAIN processed_data :
            /\ BoundsIn(logged, id) # {}
            /\ \A b \in BoundsIn(logged, id) :
                  LET entry == processed_data[id]
                  IN  /\ HoldsExactly(entry.target_data, target_data_df.rows,
                                      TargetRowsWithin(b))
                      /\ IF "model_output" \in DOMAIN entry
                         THEN HoldsExactly(entry.model_output, model_output_df.rows,
                                           ModelRowsWithin(b))
                         ELSE \A k \in DOMAIN entry.model_output_by_target :
                                  HoldsExactly(entry.model_output_by_target[k],
                                      model_output_df.rows,
                                      {r \in ModelRowsWithin(b) : r.target = k})

(* A period that keeps a target row dated exactly its end and drops the    *)
(* row of the next day, and keeps a model row dated exactly its start      *)
(* beside one dated exactly its end.                                       *)
C16_Witness ==
    /\ PartitionReturned
    /\ \E id \in DOMAIN processed_data : \E id2 \in DOMAIN processed_data :
          \E b \in BoundsIn(logged, id) : \E b2 \in BoundsIn(logged, id2) :
          /\ \E i \in DOMAIN processed_data[id].target_data :
                processed_data[id].target_data[i].date = b[2]
          /\ \E i \in DOMAIN target_data_df.rows :
                target_data_df.rows[i].date = b[2] + 1
          /\ "model_output" \in DOMAIN processed_data[id2]
          /\ \E i, j \in DOMAIN processed_data[id2].model_output :
                /\ processed_data[id2].model_output[i].reference_date = b2[1]
                /\ processed_data[id2].model_output[j].reference_date = b2[2]
                /\ b2[1] < b2[2]

(* The dynamic periods the claim calls unresolvable. *)
Unresolvable(p) ==
    /\ p.is_special_period
    /\ \/ ~p.time_anchor.set
       \/ p.time_anchor.anchor_mode \notin {"model-output", "target-data"}
       \/ p.time_anchor.anchor_mode = "model-output"
          /\ Freshest(model_output_df, "reference_date") = NaT
       \/ p.time_anchor.anchor_mode = "target-data"
          /\ Freshest(target_data_df, "date") = NaT
       \/ p.time_anchor.range_calculation.kind # "int"

(* C17: when the partitioner ends, nothing was raised; every dynamic       *)
(* period that cannot be resolved (no time_anchor, unrecognised            *)
(* anchor_mode, anchor date unavailable, range_calculation missing from    *)
(* the anchor) has a warning and no entry, and every other period has its  *)
(* entry.                                                                  *)
C17_UnresolvableSkippedNotFatal ==
    pc \in {"generate_metadata", "partition_raised"} =>
        /\ raised = "none"
        /\ \A id \in PeriodIds :
              IF Unresolvable(PeriodOf(id))
              THEN Warnings(id) # {} /\ id \notin DOMAIN processed_data
              ELSE id \in DOMAIN processed_data

(* The model rows whose reference_date lies within the bounds logged for the period. *)
FilteredModelRows(id) ==
    {r \in SeqToSet(model_output_df.rows) :
        \E b \in BoundsIn(logged, id) :
            b[1] <= r.reference_date /\ r.reference_date <= b[2]}

ListsPeriod(k, id) ==
    \E i \in DOMAIN config.targets :
        /\ config.targets[i].corresponding_key_in_model_output = k
        /\ id \in SeqToSet(config.targets[i].forecast_periods)

TargetKeys ==
    SeqToSet(ModelTargets)
    \cup {config.targets[i].corresponding_key_in_model_output : i \in DOMAIN config.targets}

(* C18: every period entry has target_data and exactly one of model_output *)
(* and model_output_by_target.  In multi-target mode with a target column, *)
(* model_output_by_target has a sub-table for key k iff some filtered      *)
(* model row has target = k and a TargetConfig with that                   *)
(* corresponding_key_in_model_output lists the period; otherwise the whole *)
(* filtered slice is under model_output.                                   *)
C18_PerTargetGrouping ==
    PartitionReturned =>
        \A id \in DOMAIN processed_data :
            LET entry == processed_data[id]
            IN  /\ "target_data" \in DOMAIN entry
                /\ "model_output" \in DOMAIN entry
                      <=> "model_output_by_target" \notin DOMAIN entry
                /\ IF ~config.is_single_target /\ "target" \in model_output_df.columns
                   THEN /\ "model_output_by_target" \in DOMAIN entry
                        /\ \A k \in TargetKeys :
                              k \in DOMAIN entry.model_output_by_target
                                 <=> /\ \E r \in FilteredModelRows(id) : r.target = k
                                     /\ ListsPeriod(k, id)
                   ELSE /\ "model_output" \in DOMAIN entry
                        /\ SeqToSet(entry.model_output) = FilteredModelRows(id)

(* One period keeps the group of a listed target beside a filtered row of  *)
(* an unlisted one; another period, which the target does not list, keeps  *)
(* no group for that target's filtered rows.                               *)
C18_Witness ==
    /\ PartitionReturned
    /\ \E id, other \in DOMAIN processed_data :
          /\ "model_output_by_target" \in DOMAIN processed_data[id]
          /\ "t1" \in DOMAIN processed_data[id].model_output_by_target
          /\ \E r \in FilteredModelRows(id) : r.target = "zz"
          /\ "model_output_by_target" \in DOMAIN processed_data[other]
          /\ "t1" \notin DOMAIN processed_data[other].model_output_by_target
          /\ \E r \in FilteredModelRows(other) : r.target = "t1"

(* The other branch: a single-target config keeps rows of two targets      *)
(* under model_output.                                                     *)
C18_WholeSliceReached ==
    /\ PartitionReturned
    /\ config.is_single_target
    /\ \E id \in DOMAIN processed_data :
          /\ "model_output" \in DOMAIN processed_data[id]
          /\ Len(processed_data[id].model_output) = 2

MetadataEntries(id) ==
    {i \in DOMAIN metadata.dynamicTimePeriod : metadata.dynamicTimePeriod[i].label = id}

(* C19: when run() has produced both, a dynamic period is listed in the    *)
(* metadata's dynamicTimePeriod exactly when the partitioner emitted an    *)
(* entry for it, and the listed (startDate, endDate) are the [start, end]  *)
(* the partitioner filtered with.                                          *)
C19_MetadataAgreesWithPartitioner ==
    pc = "run_returned" =>
        \A id \in DynamicPeriodIdsOf(config) :
            /\ MetadataEntries(id) # {} <=> id \in DOMAIN processed_data
            /\ \A i \in MetadataEntries(id) : \A b \in BoundsIn(logged, id) :
                  /\ metadata.dynamicTimePeriod[i].startDate = IsoFormat(b[1])
                  /\ metadata.dynamicTimePeriod[i].endDate = IsoFormat(b[2])

(* The location codes a table shows: those of its location column. *)
ObservedCodes(df) ==
    IF "location" \in df.columns
    THEN {df.rows[i].location : i \in DOMAIN df.rows}
    ELSE {}

(* C20: the location catalog has exactly one entry per distinct location   *)
(* code observed in the target data or in the model output, and its        *)
(* entries are in ascending order of location, whatever the rows.          *)
C20_CatalogExactAndSorted ==
    pc \in {"partition", "detect_locations_raised"} =>
        /\ raised = "none"
        /\ {locations[i].location : i \in DOMAIN locations}
              = ObservedCodes(target_data_df) \cup ObservedCodes(model_output_df)
        /\ \A i, j \in DOMAIN locations :
              i < j => CodeRank(locations[i].location) < CodeRank(locations[j].location)

(* The name target data gives a code: that of the first row with the code, *)
(* when the table has both location columns.                               *)
TargetNamed ==
    IF {"location", "location_name"} \subseteq target_data_df.columns
    THEN {target_data_df.rows[i].location : i \in DOMAIN target_data_df.rows}
    ELSE {}

TargetNameOf(code) ==
    LET first == CHOOSE i \in DOMAIN target_data_df.rows :
                    /\ target_data_df.rows[i].location = code
                    /\ \A j \in 1..(i - 1) : target_data_df.rows[j].location # code
    IN  target_data_df.rows[first].location_name

LocationsDetected == pc = "partition"

NamesFollow(lookup_key) ==
    LocationsDetected =>
        \A i \in DOMAIN locations :
            LET code == locations[i].location
            IN  locations[i].location_name =
                    IF code \in TargetNamed THEN TargetNameOf(code)
                    ELSE Get(config.us_state_fips_mapping, lookup_key[code], "Unknown")

RECURSIVE DictOf(_)
DictOf(pairs) ==
    IF pairs = <<>> THEN <<>>
    ELSE LET last == pairs[Len(pairs)]
         IN  (last[1] :> last[2]) @@ DictOf(SubSeq(pairs, 1, Len(pairs) - 1))

(* if mapping.x: rename_dict[mapping.x] = canonical *)
IfSet(name, canonical) == IF name # "" THEN <<<<name, canonical>>>> ELSE <<>>

TargetRenameDict(mapping) ==
    DictOf(<<<<mapping.date_col, "date">>, <<mapping.observation_col, "observation">>>>
           \o IfSet(mapping.location_col, "location")
           \o IfSet(mapping.location_name_col, "location_name")
           \o IfSet(mapping.target_col, "target")
           \o IfSet(mapping.as_of_col, "as_of"))

Renamed(c, rename_dict) == IF c \in DOMAIN rename_dict THEN rename_dict[c] ELSE c

(* df.rename(columns=rename_dict) *)
Rename(df, rename_dict) ==
    [columns |-> {Renamed(c, rename_dict) : c \in df.columns},
     rows |-> [i \in DOMAIN df.rows |->
                 [c2 \in {Renamed(c, rename_dict) : c \in DOMAIN df.rows[i]} |->
                     df.rows[i][CHOOSE c \in DOMAIN df.rows[i] :
                                    Renamed(c, rename_dict) = c2]]]]

(* df[df["as_of"] == df["as_of"].max()] *)
CurrentSnapshotOfLastRow(rows) ==
    SelectSeq(rows, LAMBDA r : r.as_of = rows[Len(rows)].as_of)

CurrentSnapshot(rows) ==
    SelectSeq(rows, LAMBDA r : r.as_of = MaxOf(rows, "as_of"))

LoadTargetData(cfg, path) ==
    IF ~HasAttr(cfg, "target_data_file_format")
    THEN [raised |-> "AttributeError", value |-> NoFrame]
    ELSE IF cfg.target_data_file_format = "parquet"
    THEN [raised |-> "NotImplementedError", value |-> NoFrame]
    ELSE IF cfg.target_data_file_format # "csv"
    THEN [raised |-> "ValueError", value |-> NoFrame]
    ELSE IF ~path.exists
    THEN [raised |-> "FileNotFoundError", value |-> NoFrame]
    ELSE LET df == Rename([columns |-> path.columns, rows |-> path.rows],
                          TargetRenameDict(cfg.column_mapping))
         IN  IF "date" \notin df.columns
             THEN [raised |-> "ValueError", value |-> NoFrame]
             ELSE IF "as_of" \notin df.columns
             THEN [raised |-> "none", value |-> df]
             ELSE IF MaxOf(df.rows, "as_of") = NaT
             THEN [raised |-> "ValueError", value |-> NoFrame]
             ELSE [raised |-> "none",
                   value |-> [df EXCEPT !.rows = CurrentSnapshot(df.rows)]]

TargetCsvValues == [Date : 1..2, Obs : {5}, AsOf : {NaT, 1, 2}]

TargetCsvs ==
    {[exists |-> TRUE, columns |-> header,
      rows |-> [i \in DOMAIN full |-> [c \in header |-> full[i][c]]]] :
        header \in SUBSET {"Date", "Obs", "AsOf"},
        full \in SeqUpTo(TargetCsvValues, MaxRows)}

TargetLoadInputs ==
    {[config |-> [BaseDataConfig EXCEPT !.column_mapping = ColumnMappingOf(as_of_col)],
      target_data_path |-> csv] :
        as_of_col \in {"", "AsOf"}, csv \in TargetCsvs}
    \cup {[config |-> [BaseDataConfig EXCEPT !.target_data_file_format = format],
           target_data_path |-> csv] :
            format \in {"csv", "parquet", "xlsx"},
            csv \in {NoCsv, [exists |-> TRUE, columns |-> {"Date", "Obs"},
                             rows |-> <<[Date |-> 1, Obs |-> 5]>>]}}

TargetLoadInit ==
    /\ \E in \in TargetLoadInputs :
          /\ config = in.config
          /\ target_data_path = in.target_data_path
    /\ model_output_path = <<>>
    /\ pc = "load_target_data"
    /\ doc = Unread
    /\ raw_config = <<>>
    /\ validation_errors = <<>>
    /\ validation_warnings = <<>>
    /\ raised = "none"
    /\ quantiles = NotComputed
    /\ target_data_df = NoFrame
    /\ model_output_df = NoFrame
    /\ locations = NotComputed
    /\ processed_data = NotComputed
    /\ metadata = NotComputed
    /\ logged = <<>>
    /\ NoWorkflow

LoadTargetDataStage ==
    /\ pc = "load_target_data"
    /\ LET r == LoadTargetData(config, target_data_path)
       IN /\ target_data_df' = r.value
          /\ pc' = IF r.raised = "none" THEN "load_model_output"
                   ELSE "load_target_data_raised"
          /\ raised' = r.raised
    /\ UNCHANGED <<doc, raw_config, validation_errors, validation_warnings, config,
                   quantiles, model_output_df, locations, processed_data, metadata,
                   logged, target_data_path, model_output_path, wvars>>

TargetLoadSpec == TargetLoadInit /\ [][LoadTargetDataStage]_vars

TargetLoadEnded == pc \in {"load_model_output", "load_target_data_raised"}

(* The CSV was read: format csv, and a file is there. *)
TargetCsvRead ==
    /\ TargetLoadEnded
    /\ config.target_data_file_format = "csv"
    /\ target_data_path.exists

Mapped(name) == name # "" /\ name \in target_data_path.columns

(* The rows of the file whose cell in column c holds v, as their indices. *)
RowsWith(c, v) == {i \in DOMAIN target_data_path.rows : target_data_path.rows[i][c] = v}

SameCells(df_rows, indices) ==
    /\ Len(df_rows) = Cardinality(indices)
    /\ \A k \in DOMAIN df_rows :
          \E i \in indices :
              /\ Cardinality({j \in indices : j < i}) = k - 1
              /\ df_rows[k].date = target_data_path.rows[i]["Date"]
              /\ "Obs" \in target_data_path.columns =>
                    df_rows[k].observation = target_data_path.rows[i]["Obs"]

(* C24: with an as_of column, the loader returns exactly the rows whose    *)
(* as_of equals the maximum as_of over all rows, in file order; without    *)
(* one it returns every row.                                               *)
C24_SnapshotRule ==
    (TargetCsvRead /\ Mapped(config.column_mapping.date_col)) =>
        LET as_of_col == config.column_mapping.as_of_col
        IN  IF Mapped(as_of_col)
            THEN \A latest \in 1..2 :
                    (/\ RowsWith(as_of_col, latest) # {}
                     /\ \A i \in DOMAIN target_data_path.rows :
                           target_data_path.rows[i][as_of_col] <= latest)
                    => /\ pc = "load_model_output"
                       /\ SameCells(target_data_df.rows, RowsWith(as_of_col, latest))
                       /\ \A k \in DOMAIN target_data_df.rows :
                             target_data_df.rows[k].as_of = latest
            ELSE /\ pc = "load_model_output"
                 /\ SameCells(target_data_df.rows, DOMAIN target_data_path.rows)

(* Two snapshots in the file, the older one in the last row: only the      *)
(* newer row is returned.                                                  *)
C24_Witness ==
    /\ pc = "load_model_output"
    /\ Mapped(config.column_mapping.as_of_col)
    /\ Len(target_data_path.rows) = 2
    /\ target_data_path.rows[1]["AsOf"] = 2
    /\ target_data_path.rows[2]["AsOf"] = 1
    /\ Len(target_data_df.rows) = 1

(* C25: when, after renaming, the date column or the observation column is *)
(* absent, loading fails with the required-column error and returns no     *)
(* table.                                                                  *)
C25_RequiredColumnsEnforced ==
    (/\ TargetCsvRead
     /\ \/ ~Mapped(config.column_mapping.date_col)
        \/ ~Mapped(config.column_mapping.observation_col))
    => /\ pc = "load_target_data_raised"
       /\ raised = "ValueError"
       /\ target_data_df = NoFrame

(***************************************************************************)
(* _load_model_output_data and _pivot_quantiles.  model_output_path maps a *)
(* model's name to its directory: is_dir, and the CSV files in it.  A row  *)
(* is a function from column names to cells; a cell that is empty (NaN) is *)
(* a name the row does not have.                                           *)
(***************************************************************************)
NoDirectory == [is_dir |-> FALSE, files |-> <<>>]

(* pd.concat(frames, ignore_index=True) *)
RECURSIVE Concat(_)
Concat(frames) ==
    IF frames = <<>> THEN NoFrame
    ELSE LET rest == Concat(Tail(frames))
         IN  [columns |-> Head(frames).columns \cup rest.columns,
              rows |-> Head(frames).rows \o rest.rows]

(* model_df["model"] = model.model_name *)
WithModel(df, model_name) ==
    [columns |-> df.columns \cup {"model"},
     rows |-> [i \in DOMAIN df.rows |-> ("model" :> model_name) @@ df.rows[i]]]

(* Lines 140-155: the frames of the models that have a directory with CSV files. *)
RECURSIVE ModelFrames(_, _)
ModelFrames(models, path) ==
    IF models = <<>> THEN <<>>
    ELSE LET name == Head(models).model_name
             dir == IF name \in DOMAIN path THEN path[name] ELSE NoDirectory
         IN  IF ~dir.is_dir \/ dir.files = <<>>
             THEN ModelFrames(Tail(models), path)
             ELSE <<WithModel(Concat(dir.files), name)>>
                  \o ModelFrames(Tail(models), path)

(* Lines 143-150: the warning for each model that is skipped. *)
RECURSIVE ModelWarnings(_, _)
ModelWarnings(models, path) ==
    IF models = <<>> THEN <<>>
    ELSE LET name == Head(models).model_name
             dir == IF name \in DOMAIN path THEN path[name] ELSE NoDirectory
         IN  (IF ~dir.is_dir
              THEN <<[level |-> "warning", warning |-> "directory_not_found",
                      period_id |-> name]>>
              ELSE IF dir.files = <<>>
              THEN <<[level |-> "warning", warning |-> "no_csv_files",
                      period_id |-> name]>>
              ELSE <<>>)
             \o ModelWarnings(Tail(models), path)

ModelRenameDict(mapping) ==
    DictOf(<<<<mapping.reference_date_col, "reference_date">>,
             <<mapping.target_end_date_col, "target_end_date">>,
             <<mapping.model_target_col, "target">>,
             <<mapping.horizon_col, "horizon">>,
             <<mapping.location_col, "location">>,
             <<mapping.output_type_col, "output_type">>,
             <<mapping.output_type_id_col, "output_type_id">>,
             <<mapping.value_col, "value">>>>)

(* int(x / time_unit) for time_unit > 0: the quotient truncated toward zero *)
FloorDiv(days, time_unit) == days \div time_unit

TruncDiv(days, time_unit) ==
    IF days >= 0 THEN days \div time_unit ELSE -((-days) \div time_unit)

(* Line 174: df["horizon"] = ((target_end_date - reference_date).dt.days / time_unit).astype(int) *)
WithHorizon(df, time_unit) ==
    [columns |-> df.columns \cup {"horizon"},
     rows |-> [i \in DOMAIN df.rows |->
                 ("horizon" :> TruncDiv(df.rows[i].target_end_date
                                        - df.rows[i].reference_date, time_unit))
                 @@ df.rows[i]]]

(* The column a quantile level becomes: "q" and the level with "." as "_". *)
QNames ==
    ("0.25" :> "q0_25") @@ ("0.5" :> "q0_5") @@ ("0.50" :> "q0_50") @@ ("0.75" :> "q0_75")

QNameWithoutTrailingZero(c) ==
    IF c = "0.50" THEN "q0_5" ELSE IF c \in DOMAIN QNames THEN QNames[c] ELSE c

QName(c) == IF c \in DOMAIN QNames THEN QNames[c] ELSE c

IndexCols ==
    <<"reference_date", "target_end_date", "location", "target", "horizon", "model">>

(* The order of the strings that occur as cells, as Python orders them. *)
StringOrder == <<"01", "02", "1", "m1", "m2", "t1", "zz">>

CellRank(v, col) ==
    IF col \in {"location", "target", "model"}
    THEN CHOOSE i \in DOMAIN StringOrder : StringOrder[i] = v
    ELSE v

(* Tuple order of two identities over the index columns cols. *)
RECURSIVE IdentityBefore(_, _, _)
IdentityBefore(a, b, cols) ==
    IF cols = <<>> THEN FALSE
    ELSE LET c == Head(cols)
         IN  \/ CellRank(a[c], c) < CellRank(b[c], c)
             \/ a[c] = b[c] /\ IdentityBefore(a, b, Tail(cols))

RECURSIVE SortedIdentities(_, _)
SortedIdentities(ids, cols) ==
    IF ids = {} THEN <<>>
    ELSE LET first == CHOOSE a \in ids :
                          \A b \in ids \ {a} : IdentityBefore(a, b, cols)
         IN  <<first>> \o SortedIdentities(ids \ {first}, cols)

RECURSIVE Sum(_)
Sum(values) == IF values = <<>> THEN 0 ELSE Head(values) + Sum(Tail(values))

(* aggfunc="mean"; the explored values are multiples of 12, so the mean of *)
(* up to four of them is a whole number.                                   *)
Mean(values) == Sum(values) \div Len(values)

(* concat([pivoted, other_rows]) when there are other rows *)
WithoutOtherRows(pivoted, other_rows) == pivoted

WithOtherRows(pivoted, other_rows) ==
    IF other_rows.rows # <<>> THEN Concat(<<pivoted, other_rows>>) ELSE pivoted

(* _pivot_quantiles: pivot_table(index=index_cols, columns="output_type_id", *)
(* values="value").reset_index(), the level columns renamed, the other     *)
(* rows concatenated.  pivot_table groups on the index columns and the     *)
(* level, leaving out the rows with an empty cell in one of them.          *)
PivotQuantiles(df) ==
    LET IsQuantile(r) == "output_type" \in DOMAIN r /\ r.output_type = "quantile"
        quantile_rows == SelectSeq(df.rows, IsQuantile)
        other_rows == [columns |-> df.columns,
                       rows |-> SelectSeq(df.rows, LAMBDA r : ~IsQuantile(r))]
        index_cols == SelectSeq(IndexCols, LAMBDA c : c \in df.columns)
        keys == SeqToSet(index_cols) \cup {"output_type_id"}
        grouped == SelectSeq(quantile_rows, LAMBDA r : keys \subseteq DOMAIN r)
        IdentityOf(r) == [c \in SeqToSet(index_cols) |-> r[c]]
        identities == {IdentityOf(grouped[i]) : i \in DOMAIN grouped}
        Cells(id) ==
            LET mine == SelectSeq(grouped, LAMBDA r : IdentityOf(r) = id)
                levels == {mine[i].output_type_id : i \in DOMAIN mine}
            IN  [c \in {QName(l) : l \in levels} |->
                    LET l == CHOOSE l \in levels : QName(l) = c
                        cells == SelectSeq(mine, LAMBDA r : r.output_type_id = l)
                    IN  Mean([i \in DOMAIN cells |-> cells[i].value])]
        sorted == SortedIdentities(identities, index_cols)
        pivoted ==
            [columns |-> SeqToSet(index_cols)
                         \cup {QName(grouped[i].output_type_id) : i \in DOMAIN grouped},
             rows |-> [i \in DOMAIN sorted |-> sorted[i] @@ Cells(sorted[i])]]
    IN  IF quantile_rows = <<>> THEN [raised |-> "none", value |-> df]
        ELSE IF {"output_type_id", "value"} \subseteq df.columns
        THEN [raised |-> "none", value |-> WithOtherRows(pivoted, other_rows)]
        ELSE [raised |-> "KeyError", value |-> NoFrame]

LoadModelOutputData(cfg, path) ==
    LET all_model_dfs == ModelFrames(cfg.models, path)
        warnings == ModelWarnings(cfg.models, path)
        df == Rename(Concat(all_model_dfs), ModelRenameDict(cfg.column_mapping))
        with_horizon == IF "horizon" \in df.columns THEN df
                        ELSE WithHorizon(df, cfg.time_unit.n)
        Failed(exc) == [raised |-> exc, value |-> NoFrame, logged |-> warnings]
    IN  IF all_model_dfs = <<>> THEN Failed("FileNotFoundError")
        ELSE IF ~({"reference_date", "target_end_date"} \subseteq df.columns)
        THEN Failed("ValueError")
        ELSE IF "horizon" \notin df.columns /\ cfg.time_unit.kind # "int"
        THEN Failed("TypeError")
        ELSE IF "horizon" \notin df.columns /\ ~(cfg.time_unit.n > 0)
        THEN Failed("ValueError")
        ELSE IF /\ "output_type" \in with_horizon.columns
                /\ \E i \in DOMAIN with_horizon.rows :
                      /\ "output_type" \in DOMAIN with_horizon.rows[i]
                      /\ with_horizon.rows[i].output_type = "quantile"
        THEN [raised |-> PivotQuantiles(with_horizon).raised,
              value |-> PivotQuantiles(with_horizon).value, logged |-> warnings]
        ELSE [raised |-> "none", value |-> with_horizon,
              logged |-> Append(warnings,
                             [level |-> "warning", warning |-> "no_quantile_output_type",
                              period_id |-> ""])]

(* The explored model files.  A file of dated rows, for the horizon: *)
DatedRows == [origin : {3, 10}, end : {1, 3, 17}, h : {99}]

DatedCsvs ==
    {[columns |-> header,
      rows |-> [i \in DOMAIN full |-> [c \in header |-> full[i][c]]]] :
        header \in {{"origin", "end"}, {"origin", "end", "h"}, {"origin", "h"}},
        full \in SeqUpTo(DatedRows, MaxRows)}

(* A file of long-format rows, for the pivot: quantile rows of two targets *)
(* and three levels, and mean rows, whose output_type_id cell is empty.    *)
LongRow(k) ==
    LET target == ModelTargets[(k % 2) + 1]
        kind == (k \div 2) % 8
        value == 12 * ((kind % 2) + 1)
        dated == [origin |-> 3, end |-> 17, h |-> 2, target |-> target, val |-> value]
    IN  IF kind < 6
        THEN dated @@ [type |-> "quantile",
                       type_id |-> <<"0.25", "0.5", "0.50">>[(kind \div 2) + 1]]
        ELSE dated @@ [type |-> "mean"]

LongHeader == {"origin", "end", "h", "target", "type", "type_id", "val"}

AscendingUpTo(n, len) ==
    {q \in SeqUpTo(1..n, len) : \A i \in DOMAIN q : i > 1 => q[i - 1] < q[i]}

LongCsvs ==
    {[columns |-> LongHeader \ dropped,
      rows |-> [i \in DOMAIN q |->
                  [c \in DOMAIN LongRow(q[i] - 1) \ dropped |-> LongRow(q[i] - 1)[c]]]] :
        dropped \in {{}, {"target"}},
        q \in AscendingUpTo(16, MaxLongRows)}

OneFile == [columns |-> {"origin", "end"}, rows |-> <<[origin |-> 3, end |-> 17]>>]

OtherFile == [columns |-> {"origin", "end", "h"}, rows |-> <<[origin |-> 3, end |-> 10, h |-> 1]>>]

Directories ==
    {NoDirectory, [is_dir |-> TRUE, files |-> <<>>], [is_dir |-> TRUE, files |-> <<OneFile>>],
     [is_dir |-> TRUE, files |-> <<OneFile, OtherFile>>]}

ModelLoadInputs ==
    {[config |-> [BaseDataConfig EXCEPT
                     !.models = <<[model_name |-> "m1", color_hex |-> "#123456"],
                                  [model_name |-> "m2", color_hex |-> "#123456"]>>],
      model_output_path |-> path] :
        path \in [{"m1", "m2"} -> Directories] \cup [{"m2"} -> Directories]}
    \cup {[config |-> [BaseDataConfig EXCEPT !.time_unit = time_unit],
           model_output_path |-> ("m1" :> [is_dir |-> TRUE, files |-> <<csv>>])] :
            time_unit \in [kind : {"int"}, n : {7, 1, 0, -1}]
                          \cup {[kind |-> "str", n |-> 0]},
            csv \in DatedCsvs}
    \cup {[config |-> BaseDataConfig,
           model_output_path |-> ("m1" :> [is_dir |-> TRUE, files |-> <<csv>>])] :
            csv \in LongCsvs}

ModelLoadInit ==
    /\ \E in \in ModelLoadInputs :
          /\ config = in.config
          /\ model_output_path = in.model_output_path
    /\ target_data_path = NoCsv
    /\ pc = "load_model_output"
    /\ doc = Unread
    /\ raw_config = <<>>
    /\ validation_errors = <<>>
    /\ validation_warnings = <<>>
    /\ raised = "none"
    /\ quantiles = NotComputed
    /\ target_data_df = [columns |-> TargetColumns, rows |-> <<TargetRow(3)>>]
    /\ model_output_df = NoFrame
    /\ locations = NotComputed
    /\ processed_data = NotComputed
    /\ metadata = NotComputed
    /\ logged = <<>>
    /\ NoWorkflow

LoadModelOutputStage ==
    /\ pc = "load_model_output"
    /\ LET r == LoadModelOutputData(config, model_output_path)
       IN /\ model_output_df' = r.value
          /\ logged' = logged \o r.logged
          /\ pc' = IF r.raised = "none" THEN "detect_locations"
                   ELSE "load_model_output_raised"
          /\ raised' = r.raised
    /\ UNCHANGED <<doc, raw_config, validation_errors, validation_warnings, config,
                   quantiles, target_data_df, locations, processed_data, metadata,
                   target_data_path, model_output_path, wvars>>

ModelLoadSpec == ModelLoadInit /\ [][LoadModelOutputStage]_vars

ModelLoadEnded == pc \in {"detect_locations", "load_model_output_raised"}

(* The rows of all files read, in the order read. *)
FileRows == Concat(ModelFrames(config.models, model_output_path)).rows

FileColumns == Concat(ModelFrames(config.models, model_output_path)).columns

(* The whole days from a row's origin to its end, divided by time_unit and *)
(* truncated toward zero: q with |q| * time_unit <= |days| < (|q| + 1) *   *)
(* time_unit and the sign of days.                                         *)
IsTruncatedQuotient(q, days, time_unit) ==
    /\ q * days >= 0
    /\ (IF q >= 0 THEN q ELSE -q) * time_unit <= (IF days >= 0 THEN days ELSE -days)
    /\ (IF days >= 0 THEN days ELSE -days) < ((IF q >= 0 THEN q ELSE -q) + 1) * time_unit

(* C23: without a horizon column and with time_unit > 0 every row gets     *)
(* horizon = (target_end_date - reference_date in days) / time_unit        *)
(* truncated toward zero; with time_unit <= 0 loading fails; a supplied    *)
(* horizon column is left as it is.                                        *)
C23_HorizonDerivation ==
    (/\ ModelLoadEnded
     /\ FileRows # <<>>
     /\ {"origin", "end"} \subseteq FileColumns
     /\ "type" \notin FileColumns)
    => IF "h" \in FileColumns
       THEN /\ pc = "detect_locations"
            /\ Len(model_output_df.rows) = Len(FileRows)
            /\ \A i \in DOMAIN FileRows :
                  "h" \in DOMAIN FileRows[i]
                     => model_output_df.rows[i].horizon = FileRows[i]["h"]
       ELSE IF config.time_unit.kind = "int" /\ config.time_unit.n > 0
       THEN /\ pc = "detect_locations"
            /\ Len(model_output_df.rows) = Len(FileRows)
            /\ \A i \in DOMAIN FileRows :
                  IsTruncatedQuotient(model_output_df.rows[i].horizon,
                                      FileRows[i]["end"] - FileRows[i]["origin"],
                                      config.time_unit.n)
       ELSE pc = "load_model_output_raised"

(* time_unit 7: 14 days give horizon 2, and -9 days give -1, not -2. *)
C23_Witness ==
    /\ pc = "detect_locations"
    /\ config.time_unit.n = 7
    /\ Len(model_output_df.rows) = 2
    /\ \E i, j \in DOMAIN model_output_df.rows :
          /\ model_output_df.rows[i].target_end_date
                - model_output_df.rows[i].reference_date = 14
          /\ model_output_df.rows[i].horizon = 2
          /\ model_output_df.rows[j].target_end_date
                - model_output_df.rows[j].reference_date = -9
          /\ model_output_df.rows[j].horizon = -1

(* The long-format rows read, and what of them the pivot is about. *)
IsQuantileRow(r) == "type" \in DOMAIN r /\ r["type"] = "quantile"

QuantileFileRows == SelectSeq(FileRows, IsQuantileRow)

OtherFileRows == SelectSeq(FileRows, LAMBDA r : ~IsQuantileRow(r))

Cell(r, c) == IF c \in DOMAIN r THEN r[c] ELSE "-"

(* A row's identity: its dates, target, horizon and model. *)
FileIdentity(r) == <<r["origin"], r["end"], Cell(r, "target"), r["h"], "m1">>

TableIdentity(r) ==
    <<r.reference_date, r.target_end_date, Cell(r, "target"), r.horizon, r.model>>

PivotReturned ==
    /\ pc = "detect_locations"
    /\ "type" \in FileColumns
    /\ QuantileFileRows # <<>>

(* The rows of the result that came out of the pivot, and those that bypassed it. *)
WideRows == SelectSeq(model_output_df.rows, LAMBDA r : "output_type" \notin DOMAIN r)

BypassedRows == SelectSeq(model_output_df.rows, LAMBDA r : "output_type" \in DOMAIN r)

EachPairOnce ==
    \A i, j \in DOMAIN QuantileFileRows :
        (/\ FileIdentity(QuantileFileRows[i]) = FileIdentity(QuantileFileRows[j])
         /\ QuantileFileRows[i]["type_id"] = QuantileFileRows[j]["type_id"])
        => i = j

(* Melting: every filled level cell of a wide row, as (identity, level, value). *)
Melted ==
    UNION {{<<TableIdentity(WideRows[i]), l, WideRows[i][QNames[l]]>> :
               l \in {x \in DOMAIN QNames : QNames[x] \in DOMAIN WideRows[i]}} :
           i \in DOMAIN WideRows}

OriginalTriples ==
    {<<FileIdentity(QuantileFileRows[i]), QuantileFileRows[i]["type_id"],
       QuantileFileRows[i]["val"]>> : i \in DOMAIN QuantileFileRows}

(* C22: when each (identity, output_type_id) pair occurs once, the pivot   *)
(* yields one row per identity and one column per distinct level, and      *)
(* melting the wide rows gives back exactly the (identity, output_type_id, *)
(* value) triples of the quantile rows.                                    *)
C22_PivotRoundTrip ==
    (PivotReturned /\ EachPairOnce) =>
        /\ Len(WideRows)
              = Cardinality({FileIdentity(QuantileFileRows[i]) : i \in DOMAIN QuantileFileRows})
        /\ \A i, j \in DOMAIN WideRows :
              TableIdentity(WideRows[i]) = TableIdentity(WideRows[j]) => i = j
        /\ Cardinality(model_output_df.columns
                       \cap {QNames[l] : l \in DOMAIN QNames})
              = Cardinality({QuantileFileRows[i]["type_id"] : i \in DOMAIN QuantileFileRows})
        /\ Melted = OriginalTriples

(* One identity with the three levels "0.25", "0.5" and "0.50". *)
C22_Witness ==
    /\ PivotReturned
    /\ EachPairOnce
    /\ Len(QuantileFileRows) = 3
    /\ Len(WideRows) = 1
    /\ {"q0_25", "q0_5", "q0_50"} \subseteq DOMAIN WideRows[1]

(* C26: when quantile rows are mixed with rows of another output_type,     *)
(* every other row is in the result exactly once with the cells it had,    *)
(* and the result has (distinct quantile identities) + (other rows) rows.  *)
C26_OtherRowsBypassPivot ==
    (PivotReturned /\ OtherFileRows # <<>>) =>
        /\ Len(BypassedRows) = Len(OtherFileRows)
        /\ \A k \in DOMAIN OtherFileRows :
              /\ TableIdentity(BypassedRows[k]) = FileIdentity(OtherFileRows[k])
              /\ BypassedRows[k].output_type = OtherFileRows[k]["type"]
              /\ BypassedRows[k].value = OtherFileRows[k]["val"]
              /\ DOMAIN BypassedRows[k] \cap {QNames[l] : l \in DOMAIN QNames} = {}
              /\ "output_type_id" \in DOMAIN BypassedRows[k]
                    <=> "type_id" \in DOMAIN OtherFileRows[k]
        /\ Len(model_output_df.rows)
              = Cardinality({FileIdentity(QuantileFileRows[i]) : i \in DOMAIN QuantileFileRows})
                + Len(OtherFileRows)

(* Quantile rows of two levels of one identity beside a mean row. *)
C26_Witness ==
    /\ PivotReturned
    /\ Len(OtherFileRows) = 1
    /\ Len(QuantileFileRows) = 2
    /\ Len(WideRows) = 1
    /\ Len(model_output_df.rows) = 2

(***************************************************************************)
(* The partitioner and its inputs.                                         *)
(***************************************************************************)
(* The orders in which the periods of the configuration can be processed. *)
PeriodOrders ==
    LET D == DOMAIN AllPeriods
    IN  {[i \in D |-> AllPeriods[p[i]]] :
            p \in {f \in [D -> D] : \A i, j \in D : f[i] = f[j] => i = j}}

Partitioned(order) ==
    ProcessPeriodsFrom(order, config, target_data_df, model_output_df, <<>>, <<>>)

(* C27: the partitioner leaves the shared target and model-output tables   *)
(* with the rows and values they had; processing the periods in any other  *)
(* order returns, or fails to return, alike, and returns the same entry    *)
(* for each period; the entry of a period is the one returned when that    *)
(* period is processed alone.                                              *)
C27_PartitionFrameAndOrder ==
    [][pc = "partition" =>
        /\ target_data_df' = target_data_df
        /\ model_output_df' = model_output_df
        /\ \A order \in PeriodOrders :
              /\ (Partitioned(order).raised = "none") <=> (pc' = "generate_metadata")
              /\ pc' = "generate_metadata" =>
                    Partitioned(order).processed_data = processed_data'
        /\ pc' = "generate_metadata" =>
              \A i \in DOMAIN AllPeriods :
                 LET alone == Partitioned(<<AllPeriods[i]>>).processed_data
                 IN  \A id \in DOMAIN alone : /\ id \in DOMAIN processed_data'
                                              /\ processed_data'[id] = alone[id]]_vars

(* Two periods were partitioned, their slices of the target table differ, *)
(* and one of them left out a row of a table.                             *)
C27_Witness ==
    /\ PartitionReturned
    /\ \E a, b \in DOMAIN processed_data :
          /\ a # b
          /\ processed_data[a].target_data # processed_data[b].target_data
          /\ Len(processed_data[a].target_data) < Len(target_data_df.rows)
    /\ model_output_df.rows # <<>>

(***************************************************************************)
(* load_config as a function of the document: the sections of              *)
(* _parse_and_validate in their order, then load_config's check.  The      *)
(* config carries the attributes DashboardConfig.__init__ sets.            *)
(***************************************************************************)
(* _parse_column_mappings, lines 701-722: the name a mapping gives, else   *)
(* the default; "" is None.                                                *)
ParseColumnMappings(d) ==
    [date_col |-> "date", observation_col |-> "value",
     location_col |-> IF "location_col_name" \in DOMAIN d THEN d.location_col_name ELSE "",
     location_name_col |-> "", target_col |-> "", as_of_col |-> "",
     reference_date_col |-> "reference_date", target_end_date_col |-> "target_end_date",
     model_target_col |-> "target", horizon_col |-> "horizon",
     output_type_col |-> "output_type", output_type_id_col |-> "output_type_id",
     value_col |-> "value"]

FirstRaised(outcomes) ==
    IF \A i \in DOMAIN outcomes : outcomes[i] = "none" THEN "none"
    ELSE outcomes[CHOOSE i \in DOMAIN outcomes :
                      /\ outcomes[i] # "none"
                      /\ \A j \in 1..(i - 1) : outcomes[j] = "none"]

LoadConfigOf(d) ==
    LET raw == IF LoadYaml(d) = "ok" THEN YamlItems(d) ELSE <<>>
        has_online == HasKey(raw, "links_to_hubverse_compatible_data") /\ d.links.online
        links == IF has_online /\ d.links.local
                 THEN <<Err("data_source", "local_and_online", "")>> ELSE <<>>
        st == ParseStaticFrom(IF HasKey(raw, "forecast_periods") THEN d.static ELSE <<>>,
                              <<>>, <<>>)
        dy == ParseDynamicFrom(IF HasKey(raw, "special_forecast_periods")
                               THEN d.dynamic ELSE <<>>, <<>>, <<>>)
        vp == ValidatePeriodsFrom(st.periods \o dy.periods, {}, {}, <<>>, <<>>)
        single == IsSingleLocation(raw, d)
        loc == ParseLocationData(raw, d)
        vl == ValidateLocationData(single, loc)
        tg == ParseTargetsFrom(IF HasKey(raw, "targets") THEN d.targets ELSE <<>>,
                  AllPeriodIds([forecast_periods |-> st.periods,
                                dynamic_periods |-> dy.periods]),
                  <<>>, <<>>, <<>>)
        tu == TimeUnitCheck(raw, d)
        hz == IF HasKey(raw, "horizons") THEN d.horizons ELSE "absent"
        ms == ValidateAndAssignModelColors(ParseModels(raw, d))
        pi == ParsePredictionIntervals(raw, d)
        raised_in_sections ==
            FirstRaised(<<IF LoadYaml(d) = "ok" THEN "none" ELSE "MalformedDocument",
                          st.raised, dy.raised, vp.raised, tg.raised, tu.raised,
                          pi.raised>>)
        errors == links \o st.errors \o dy.errors \o vp.errors \o vl.errors
                  \o tg.errors \o tu.errors
                  \o (IF hz # "list" THEN <<Err("horizons", "required", "")>> ELSE <<>>)
                  \o pi.errors
    IN  [raised |-> IF raised_in_sections # "none" THEN raised_in_sections
                    ELSE IF ValidationFailed(errors) THEN "ConfigurationValidationFailed"
                    ELSE "none",
         config |->
            [target_data_link |-> has_online,
             forecast_periods |-> st.periods, dynamic_periods |-> dy.periods,
             is_single_location |-> single,
             single_location_mapping |-> ParseSingleLocationMapping(raw, d, single),
             location_data |-> loc,
             targets |-> tg.targets, time_unit |-> tu.value,
             horizons |-> hz, target_data_observation_format |-> "float",
             models |-> ms.models, prediction_intervals |-> pi.intervals,
             baseline_model_for_relative_wis |->
                 IF HasKey(raw, "baseline_model_for_relative_WIS")
                 THEN d.baseline ELSE "absent",
             is_single_target |-> FALSE,
             column_mapping |-> ParseColumnMappings(d)]]

(* load_config agrees with the constructor taken section by section. *)
LoadConfigOfAgrees ==
    /\ pc = "returned" =>
          /\ LoadConfigOf(doc).raised = "none"
          /\ \A f \in DOMAIN config : LoadConfigOf(doc).config[f] = config[f]
    /\ pc = "load_config_raised" => LoadConfigOf(doc).raised # "none"

(***************************************************************************)
(* DataProcessor.run as a whole: the five stages in the order of lines     *)
(* 39-49.  A run is given either the object load_config returned for a     *)
(* document (doc is that document) or an object built with the attributes  *)
(* the stages read (doc is unread), and the files under the two data       *)
(* directories.                                                            *)
(***************************************************************************)
OneDeviation == {T \in SUBSET Groups : Cardinality(T) <= 1}

RunDocuments == {MkDocument(c) : c \in UNION {ChoicesFor(S) : S \in OneDeviation}}

ReturnedDocuments == {d \in RunDocuments : LoadConfigOf(d).raised = "none"}

(* A target CSV and a model CSV under the default column names. *)
DefaultTargetCsv(dates) ==
    [exists |-> TRUE, columns |-> {"date", "value", "location", "location_name"},
     rows |-> [i \in DOMAIN dates |->
                  [date |-> dates[i], value |-> 5, location |-> "01",
                   location_name |-> "Alabama"]]]

DefaultModelCsv ==
    [columns |-> {"reference_date", "target_end_date", "target", "location", "horizon",
                  "output_type", "output_type_id", "value"},
     rows |-> <<[reference_date |-> 3, target_end_date |-> 10, target |-> "t1",
                 location |-> "01", horizon |-> 1, output_type |-> "quantile",
                 output_type_id |-> "0.5", value |-> 12]>>]

RunTargetPaths == {NoCsv} \cup {DefaultTargetCsv(q) : q \in Ascending(MaxDay) \ {<<>>}}

RunModelPaths ==
    {[m \in ModelNames |-> [is_dir |-> TRUE, files |-> <<DefaultModelCsv>>]],
     ("m1" :> [is_dir |-> TRUE, files |-> <<DefaultModelCsv>>]),
     ("m1" :> NoDirectory)}

ProcessorConfigs ==
    {BaseDataConfig}
    \cup {[BaseDataConfig EXCEPT !.dynamic_periods = <<DynamicPeriod("d1", a)>>] :
            a \in TimeAnchors}

RunInputs ==
    {[doc |-> d, config |-> LoadConfigOf(d).config] : d \in ReturnedDocuments}
    \cup {[doc |-> Unread, config |-> c] : c \in ProcessorConfigs}

RunInit ==
    /\ \E in \in RunInputs :
          /\ doc = in.doc
          /\ config = in.config
    /\ target_data_path \in RunTargetPaths
    /\ model_output_path \in RunModelPaths
    /\ pc = "load_target_data"
    /\ raw_config = <<>>
    /\ validation_errors = <<>>
    /\ validation_warnings = <<>>
    /\ raised = "none"
    /\ quantiles = NotComputed
    /\ target_data_df = NoFrame
    /\ model_output_df = NoFrame
    /\ locations = NotComputed
    /\ processed_data = NotComputed
    /\ metadata = NotComputed
    /\ logged = <<>>
    /\ NoWorkflow

RunNext ==
    \/ LoadTargetDataStage
    \/ LoadModelOutputStage
    \/ DetectLocationsStage
    \/ PartitionStage
    \/ MetadataStage

RunSpec == RunInit /\ [][RunNext]_vars

ConfigFromLoadConfig == doc # Unread

RunRaised ==
    pc \in {"load_target_data_raised", "load_model_output_raised",
            "detect_locations_raised", "partition_raised", "generate_metadata_raised"}

(* The target CSV and a model's CSV are there with the columns the         *)
(* column mapping names.                                                   *)
CsvsCarryMappedColumns ==
    /\ target_data_path.exists
    /\ {config.column_mapping.date_col, config.column_mapping.observation_col}
          \subseteq target_data_path.columns
    /\ \E i \in DOMAIN config.models :
          LET name == config.models[i].model_name
          IN  /\ name \in DOMAIN model_output_path
              /\ model_output_path[name].is_dir
              /\ model_output_path[name].files # <<>>
              /\ \A k \in DOMAIN model_output_path[name].files :
                    {config.column_mapping.reference_date_col,
                     config.column_mapping.target_end_date_col,
                     config.column_mapping.model_target_col,
                     config.column_mapping.output_type_col,
                     config.column_mapping.output_type_id_col,
                     config.column_mapping.value_col}
                        \subseteq model_output_path[name].files[k].columns

(* C28: a run on a config load_config returned, with the target CSV and a  *)
(* model CSV present under the mapped column names, goes through its five  *)
(* stages and returns True: it never ends by raising.                      *)
C28_RunReturnsTrue ==
    (ConfigFromLoadConfig /\ CsvsCarryMappedColumns) => ~RunRaised

(***************************************************************************)
(* _generate_metadata on the configs load_config returns for documents     *)
(* with one dynamic period.  The period's own range_calculation key and    *)
(* the keys under its time_anchor (anchor_on, anchor_mode,                 *)
(* range_calculation) vary; a key the document leaves out reads as None.   *)
(***************************************************************************)
AnchoredPeriods ==
    {[id |-> "d1", display |-> "d1", anchor |-> on, range |-> range,
      anchor_mode |-> mode, anchor_range |-> inner] :
        on \in {"latest", "s1"},
        range \in {NoRange, IntRange(-1), IntRange(0), IntRange(1)},
        mode \in {"None", "model-output", "target-data"},
        inner \in {NoRange, IntRange(-1), IntRange(-2), IntRange(1)}}

AnchorDocuments == {[MkDocument(Base) EXCEPT !.dynamic = <<p>>] : p \in AnchoredPeriods}

MetadataInit ==
    /\ \E d \in AnchorDocuments :
          /\ LoadConfigOf(d).raised = "none"
          /\ doc = d
          /\ config = LoadConfigOf(d).config
    /\ \E dates \in {<<>>, <<3>>, <<3, 4>>} :
          /\ target_data_df = [columns |-> TargetColumns,
                               rows |-> [i \in DOMAIN dates |-> TargetRow(dates[i])]]
          /\ model_output_df = [columns |-> ModelColumns,
                                rows |-> [i \in DOMAIN dates |-> ModelRow(dates[i], "t1")]]
    /\ pc = "generate_metadata"
    /\ raw_config = <<>>
    /\ validation_errors = <<>>
    /\ validation_warnings = <<>>
    /\ raised = "none"
    /\ quantiles = NotComputed
    /\ locations = <<[location |-> "01", location_name |-> "Alabama"]>>
    /\ processed_data = <<>>
    /\ metadata = NotComputed
    /\ logged = <<>>
    /\ target_data_path = NoCsv
    /\ model_output_path = <<>>
    /\ NoWorkflow

MetadataSpec == MetadataInit /\ [][MetadataStage]_vars

(* What _validate_forecast_periods checks (yaml_config_processor.py 310)   *)
(* and what the bounds are computed from (data_processor.py 277, 325).     *)
ValidatedRange(period) == period.range_calculation

(* C29: the offset of a dynamic period of a returned config is the         *)
(* range_calculation the validator checked: every dynamicTimePeriod entry  *)
(* starts range_calculation * time_unit days from its end, and computing   *)
(* the bounds raises only for a period whose validated range_calculation   *)
(* is no integer.                                                          *)
C29_ValidatedRangeIsUsed ==
    /\ pc = "run_returned" =>
          \A i \in DOMAIN metadata.dynamicTimePeriod :
             LET entry == metadata.dynamicTimePeriod[i]
             IN  entry.startDate
                    = IsoFormat(entry.endDate.iso
                                + ValidatedRange(PeriodOf(entry.label)).n
                                  * config.time_unit.n)
    /\ pc = "generate_metadata_raised" =>
          \E j \in DOMAIN config.dynamic_periods :
              ValidatedRange(config.dynamic_periods[j]).kind # "int"

(***************************************************************************)
(* The workflow script (scripts/dashboard_builder_workflow.py): main(),    *)
(* the four steps of run_config_validation, and run_data_processing.       *)
(* input() reads the next line of stdin and raises EOFError at its end;    *)
(* an exception nothing catches ends the process with status 1.            *)
(***************************************************************************)
Answers == {"", "yes", "Yes ", "y", "no", "N", "maybe"}

(* .strip().lower() *)
StripLower(line) ==
    CASE line = "Yes " -> "yes"
      [] line = "N" -> "n"
      [] OTHER -> line

(* Line 194: response in ["yes", "y"] *)
ConfirmsUnlessDeclined(response) == response \notin {"no", "n"}

Confirms(response) == response \in {"yes", "y"}

(* _get_user_confirmation, lines 191-203: read answers until one is yes/y  *)
(* or no/n.                                                                *)
RECURSIVE GetUserConfirmationFrom(_, _, _)
GetUserConfirmationFrom(lines, read, out) ==
    IF read >= Len(lines)
    THEN [result |-> "EOFError", consumed |-> read, printed |-> out]
    ELSE LET response == StripLower(lines[read + 1])
         IN  IF Confirms(response)
             THEN [result |-> "confirmed", consumed |-> read + 1,
                   printed |-> Append(out, "user_confirmed")]
             ELSE IF response \in {"no", "n"}
             THEN [result |-> "cancelled", consumed |-> read + 1,
                   printed |-> Append(out, "user_cancelled")]
             ELSE GetUserConfirmationFrom(lines, read + 1,
                                          Append(out, "please_enter_yes_or_no"))

(* Lines 144-149: one error for each period id a target lists that no      *)
(* period has.                                                             *)
RECURSIVE UndefinedPeriodErrors(_, _)
UndefinedPeriodErrors(cfg, t) ==
    IF t > Len(cfg.targets) THEN <<>>
    ELSE LET undefined == SelectSeq(cfg.targets[t].forecast_periods,
                              LAMBDA id : id \notin SeqToSet(AllPeriodIds(cfg)))
         IN  [i \in DOMAIN undefined |-> Err("targets", "undefined_period", undefined[i])]
             \o UndefinedPeriodErrors(cfg, t + 1)

(* _check_configuration_requirements, lines 115-167. *)
CheckConfigurationRequirements(cfg) ==
    [warnings |->
        (IF ~cfg.target_data_link THEN <<Warn("links", "no_links", "")>> ELSE <<>>)
        \o (IF cfg.forecast_periods = <<>>
            THEN <<Warn("forecast_periods", "none_defined", "")>> ELSE <<>>)
        \o (IF \E i \in 1..(Len(cfg.forecast_periods) - 1) :
                  cfg.forecast_periods[i].start_date
                      > cfg.forecast_periods[i + 1].start_date
            THEN <<Warn("forecast_periods", "not_chronological", "")>> ELSE <<>>),
     errors |->
        (IF cfg.targets = <<>> THEN <<Err("targets", "none_defined", "")>> ELSE <<>>)
        \o (IF cfg.models = <<>> THEN <<Err("models", "none_defined", "")>> ELSE <<>>)
        \o UndefinedPeriodErrors(cfg, 1)]

(* generate_and_print_samples (csv_shape_generator.py 589-601): the        *)
(* exception it raises on a config load_config returned, "none" when it    *)
(* returns.  print_model_output_sample formats the location column name    *)
(* of a multi-location config with :<25 (211-218, 466), a TypeError when   *)
(* no location column is mapped; print_configuration_summary reads         *)
(* config.us_state_fips_mapping of a single-location config (571).         *)
GenerateAndPrintSamples(cfg) ==
    IF ~cfg.is_single_location /\ cfg.column_mapping.location_col = ""
    THEN "TypeError"
    ELSE IF cfg.is_single_location /\ ~HasAttr(cfg, "us_state_fips_mapping")
    THEN "AttributeError"
    ELSE "none"

(* process_data (data_processor.py 372-384): DataProcessor(config).run(),  *)
(* the stages of lines 39-49 one after the other; the exception raised.    *)
ProcessData(cfg, target_path, model_path) ==
    LET t == LoadTargetData(cfg, target_path)
    IN  IF t.raised # "none" THEN t.raised
        ELSE LET m == LoadModelOutputData(cfg, model_path)
             IN  IF m.raised # "none" THEN m.raised
                 ELSE LET l == DetectLocations(cfg, t.value, m.value)
                      IN  IF l.raised # "none" THEN l.raised
                          ELSE LET p == ProcessAndStructureData(cfg, t.value, m.value)
                               IN  IF p.raised # "none" THEN p.raised
                                   ELSE GenerateMetadata(cfg, l.value, m.value,
                                                         t.value).raised

WorkflowDocuments ==
    {[location_col_name |-> l] @@ d : d \in RunDocuments, l \in {"", "location"}}

ConfirmationInputs ==
    {<<>>, <<"">>} \cup {<<"", "">> \o a : a \in SeqUpTo(Answers, MaxAnswers)}

WorkflowInputs ==
    {[doc |-> d, stdin |-> lines] :
        d \in WorkflowDocuments, lines \in {<<>>, <<"", "", "y">>, <<"", "", "no">>}}
    \cup {[doc |-> [location_col_name |-> l] @@ MkDocument(Base), stdin |-> lines] :
            l \in {"", "location"}, lines \in ConfirmationInputs}

WorkflowInit ==
    /\ \E in \in WorkflowInputs :
          /\ doc = in.doc
          /\ stdin = in.stdin
    /\ skip_confirmation \in BOOLEAN
    /\ consumed = 0
    /\ printed = <<>>
    /\ exit_status = NotExited
    /\ pc = "main"
    /\ config = None
    /\ raised = "none"
    /\ raw_config = <<>>
    /\ validation_errors = <<>>
    /\ validation_warnings = <<>>
    /\ quantiles = NotComputed
    /\ target_data_df = NoFrame
    /\ model_output_df = NoFrame
    /\ locations = NotComputed
    /\ processed_data = NotComputed
    /\ metadata = NotComputed
    /\ logged = <<>>
    /\ target_data_path = DefaultTargetCsv(<<3>>)
    /\ model_output_path = [m \in ModelNames |->
                               [is_dir |-> TRUE, files |-> <<DefaultModelCsv>>]]

(* One step of the script: where it goes on, or the status it exits with   *)
(* and the exception that ended it.                                        *)
WorkflowStep(next, status, exc) ==
    /\ pc' = IF status = NotExited THEN next ELSE "exited"
    /\ exit_status' = status
    /\ raised' = exc
    /\ UNCHANGED <<doc, raw_config, validation_errors, validation_warnings,
                   quantiles, target_data_df, model_output_df, locations,
                   processed_data, metadata, logged, target_data_path,
                   model_output_path, skip_confirmation, stdin>>

(* main, lines 256-266: --skip-confirmation. *)
SkipConfirmationMode ==
    /\ pc = "main"
    /\ skip_confirmation
    /\ LET r == LoadConfigOf(doc)
           loaded == r.raised = "none"
           validated == loaded /\ GenerateAndPrintSamples(r.config) = "none"
       IN /\ config' = IF loaded THEN r.config ELSE config
          /\ printed' = IF validated
                        THEN Append(printed, "validated_skip_confirmation")
                        ELSE printed
          /\ WorkflowStep("exited", IF validated THEN 0 ELSE 1, "none")
    /\ UNCHANGED consumed

(* main, lines 268-270, run_config_validation 64-70 and                     *)
(* _load_configuration.                                                    *)
LoadConfiguration ==
    /\ pc = "main"
    /\ ~skip_confirmation
    /\ LET r == LoadConfigOf(doc)
           loaded == r.raised = "none"
       IN /\ config' = IF loaded THEN r.config ELSE config
          /\ printed' = printed \o <<"phase_1">>
                        \o (IF loaded THEN <<"configuration_loaded">> ELSE <<>>)
          /\ WorkflowStep("prompt_after_load", IF loaded THEN NotExited ELSE 1, "none")
    /\ UNCHANGED consumed

(* _prompt_to_continue, lines 72 and 78. *)
PromptToContinue ==
    /\ pc \in {"prompt_after_load", "prompt_after_check"}
    /\ IF consumed < Len(stdin)
       THEN /\ consumed' = consumed + 1
            /\ WorkflowStep(IF pc = "prompt_after_load" THEN "check_requirements"
                            ELSE "display_csv_samples", NotExited, "none")
       ELSE /\ consumed' = consumed
            /\ WorkflowStep("exited", 1, "EOFError")
    /\ UNCHANGED <<config, printed>>

(* run_config_validation, lines 75-76. *)
CheckRequirements ==
    /\ pc = "check_requirements"
    /\ LET r == CheckConfigurationRequirements(config)
           passed == r.errors = <<>>
       IN /\ printed' = printed
                        \o (IF r.warnings # <<>> THEN <<"warnings">> ELSE <<>>)
                        \o (IF passed THEN <<"requirements_passed">>
                            ELSE <<"errors", "requirements_failed">>)
          /\ WorkflowStep("prompt_after_check", IF passed THEN NotExited ELSE 1, "none")
    /\ UNCHANGED <<config, consumed>>

(* _display_csv_samples, lines 169-177: logs and re-raises. *)
DisplayCsvSamples ==
    /\ pc = "display_csv_samples"
    /\ LET exc == GenerateAndPrintSamples(config)
       IN /\ printed' = Append(printed, "step_3")
          /\ WorkflowStep("get_user_confirmation",
                          IF exc = "none" THEN NotExited ELSE 1, exc)
    /\ UNCHANGED <<config, consumed>>

(* _get_user_confirmation and main line 269. *)
GetUserConfirmation ==
    /\ pc = "get_user_confirmation"
    /\ LET r == GetUserConfirmationFrom(stdin, consumed,
                                        Append(printed, "confirmation_required"))
       IN /\ consumed' = r.consumed
          /\ printed' = r.printed
          /\ WorkflowStep("run_data_processing",
                          IF r.result = "confirmed" THEN NotExited ELSE 1,
                          IF r.result = "EOFError" THEN "EOFError" ELSE "none")
    /\ UNCHANGED config

(* run_data_processing and main, lines 274-279. *)
RunDataProcessing ==
    /\ pc = "run_data_processing"
    /\ LET exc == ProcessData(config, target_data_path, model_output_path)
       IN /\ printed' = Append(printed, "phase_2")
                        \o (IF exc = "none"
                            THEN <<"processing_completed", "completed">> ELSE <<>>)
          /\ WorkflowStep("exited", IF exc = "none" THEN 0 ELSE 1, exc)
    /\ UNCHANGED <<config, consumed>>

WorkflowNext ==
    \/ SkipConfirmationMode
    \/ LoadConfiguration
    \/ PromptToContinue
    \/ CheckRequirements
    \/ DisplayCsvSamples
    \/ GetUserConfirmation
    \/ RunDataProcessing

WorkflowSpec == WorkflowInit /\ [][WorkflowNext]_vars

Printed(line) == \E i \in DOMAIN printed : printed[i] = line

PrintedBefore(a, b) ==
    \E i, j \in DOMAIN printed : i < j /\ printed[i] = a /\ printed[j] = b

(* The lines read at the confirmation prompt: those after the two          *)
(* "Press Enter" lines.                                                    *)
AnswersRead == {k \in 3..consumed : k \in DOMAIN stdin}

IsNeitherYesNorNo(line) == StripLower(line) \notin {"yes", "y", "no", "n"}

(* C30: data processing starts ("PHASE 2" is printed) only in interactive  *)
(* mode and only after, in this order, the configuration loaded, the       *)
(* requirements check found no error, and the last answer read was yes/y,  *)
(* every answer before it being neither yes/y nor no/n and re-prompted; an  *)
(* interactive run that ends without starting it exits with status 1; a    *)
(* --skip-confirmation run never starts it.                                *)
C30_PhaseGate ==
    /\ Printed("phase_2") =>
          /\ ~skip_confirmation
          /\ LoadConfigOf(doc).raised = "none"
          /\ config.targets # <<>>
          /\ config.models # <<>>
          /\ UndefinedPeriodReferences(config) = {}
          /\ PrintedBefore("configuration_loaded", "requirements_passed")
          /\ PrintedBefore("requirements_passed", "user_confirmed")
          /\ PrintedBefore("user_confirmed", "phase_2")
          /\ consumed \in AnswersRead
          /\ StripLower(stdin[consumed]) \in {"yes", "y"}
          /\ \A k \in AnswersRead \ {consumed} : IsNeitherYesNorNo(stdin[k])
    /\ (pc \in {"run_data_processing", "exited"} /\ Printed("confirmation_required")) =>
          Cardinality({i \in DOMAIN printed : printed[i] = "please_enter_yes_or_no"})
             = Cardinality({k \in AnswersRead : IsNeitherYesNorNo(stdin[k])})
    /\ (pc = "exited" /\ ~skip_confirmation /\ ~Printed("phase_2")) => exit_status = 1
    /\ skip_confirmation => ~Printed("phase_2")

(* Data processing started after an answer that was re-prompted. *)
C30_Witness ==
    /\ Printed("phase_2")
    /\ Printed("please_enter_yes_or_no")
    /\ pc = "exited"

=============================================================================
